---- MODULE Spec2Model ----
(***************************************************************************)
(* Request handlers of the Next.js frontend (ai-agent-fe/app/api) over the *)
(* Firestore document store and the external ADK agent service.            *)
(*                                                                         *)
(* A handler is a sequence of steps, one per awaited store operation or    *)
(* external call; steps of different requests interleave.  The store is    *)
(* the `sessions` collection and its `messages` subcollections.            *)
(***************************************************************************)
EXTENDS Integers, Sequences, FiniteSets, TLC

VARIABLES
    sessions,   \* sessions/{id}: the document, or NoDoc
    creator,    \* history: uid of the request that created sessions/{id}
    messages,   \* the documents of every sessions/{id}/messages subcollection
    now,        \* the store's server clock (FieldValue.serverTimestamp())
    nextAuto,   \* how many auto-ids CollectionReference.add() has handed out
    reqs,       \* the requests in flight, one per slot
    resp,       \* the response sent by the last step, if it sent one
    started,    \* requests taken up so far that went on to a store operation
    env,        \* process environment read at module load (adk/route.ts)
    workers,    \* how many requests the server handles at the same time
    projects,   \* projects/{id}: the document, or NoDoc
    profiles,   \* users/{uid}: the profile document, or NoDoc
    inits       \* the runs of initializeUserProfile in the browser

vars == <<sessions, creator, messages, now, nextAuto, reqs, resp, started, env,
          workers, projects, profiles, inits>>

----------------------------------------------------------------------------
(* Bounds of the model *)

MaxRequests == 2      \* requests that go on to a store operation or a call
MaxSessions == 2      \* sessions created by POST /api/sessions

(* Program constants *)

ProxyTimeoutMs == 60000    \* AbortSignal.timeout(60000)
DeleteBatchLimit == 500    \* messagesRef.limit(500)

Slots == {"a", "b"}        \* requests handled at the same time

Users == {"u1", "u2"}
NoUser == "<none>"         \* no decoded token
Absent == "<absent>"       \* a field the document does not have

AutoIds == 1 .. MaxSessions        \* ids generated by add()
ClientId == 0                      \* an id chosen by a client, never generated
SessionIds == AutoIds \cup {ClientId}

NoDoc == [exists |-> FALSE]

ProjectIds == {"p1", "p2"}

FallbackText == "I'm sorry, but I'm temporarily unable to process your request. The AI agent service is currently unavailable. Please try again later."
DefaultText == "Sorry, I could not process your request."
AckText == "Agent acknowledged."

----------------------------------------------------------------------------
(* Authorization header and token verification *)

Tokens == Users \cup {"", "expired"}

Headers ==
    {[scheme |-> "none", token |-> ""]}
    \cup {[scheme |-> "Bearer", token |-> t] : t \in Tokens}

\* adminAuth.verifyIdToken: resolves to the decoded token, or throws
verifyIdToken(token) == IF token \in Users THEN token ELSE NoUser

\* lib/firebase/authUtils.ts
verifyAuthToken(h) ==
    IF h.scheme = "Bearer"
    THEN IF h.token = "" THEN NoUser ELSE verifyIdToken(h.token)
    ELSE NoUser

\* the inline check of sessions/route.ts and messages/route.ts:
\* startsWith('Bearer '), split, verifyIdToken in try/catch -> 401
InlineAuth(h) ==
    IF h.scheme # "Bearer" THEN NoUser ELSE verifyIdToken(h.token)

----------------------------------------------------------------------------
(* The document store *)

SessionExists(sid) == sessions[sid].exists

MessagesOf(sid) == {m \in messages : m.sid = sid}

\* CollectionReference.add(messageData): a new document with a fresh id
AddMessageDoc(sid, sender, text, na) ==
    [id |-> now, sid |-> sid, sender |-> sender, text |-> text,
     createdAt |-> now, next_actions |-> na]

\* Query.orderBy('createdAt', 'asc') over message documents
RECURSIVE OrderByCreatedAtAsc(_)
OrderByCreatedAtAsc(S) ==
    IF S = {} THEN <<>>
    ELSE LET m == CHOOSE x \in S : \A y \in S : x.createdAt <= y.createdAt
         IN <<m>> \o OrderByCreatedAtAsc(S \ {m})

\* Query.orderBy('updatedAt', 'desc') over session ids
RECURSIVE OrderByUpdatedAtDesc(_)
OrderByUpdatedAtDesc(S) ==
    IF S = {} THEN <<>>
    ELSE LET m == CHOOSE x \in S :
                    \A y \in S : sessions[x].updatedAt >= sessions[y].updatedAt
         IN <<m>> \o OrderByUpdatedAtDesc(S \ {m})

----------------------------------------------------------------------------
(* JSON values of an agent answer.  Every value carries its type in t;      *)
(* an object carries every field the code looks at, Nil where it has none.  *)

Nil == [t |-> "undefined"]
JsNull == [t |-> "null"]
JsNumber == [t |-> "number"]
Str(x) == [t |-> "string", s |-> x]
Arr(x) == [t |-> "array", v |-> x]
Part(x) == [text |-> x]
ContentObj(parts, na) == [t |-> "object", parts |-> parts, next_actions |-> na]
MessageObj(content, text) == [t |-> "object", content |-> content, text |-> text]
EventObj(type, parts) == [event_type |-> type, parts |-> parts]

\* JavaScript truthiness of a value
Truthy(v) == \/ v.t = "string" /\ v.s # ""
             \/ v.t \in {"object", "array", "number"}

\* next_actions as the handler holds it: undefined, or an array
NoActions == [def |-> FALSE, v |-> <<>>]
Actions(x) == [def |-> TRUE, v |-> x]

PlainText == "Here is my answer."
OtherText == "Another answer."
JsonText == "<json-block content=Parsed answer. next_actions=[Go on]>"
JsonNoContentText == "<json-block next_actions=[Retry]>"
JsonContentOnlyText == "<json-block content=Parsed answer.>"
JsonBadText == "<json-block not-json>"
JsonBadBraceText == "<json-block {not-json>"
ParsedText == "Parsed answer."

\* the match of the fenced json block in a text, followed by
\* JSON.parse(jsonMatch[1]); defined on the texts above, which stand for
\* texts holding such a block
JsonBlock(text) ==
    CASE text = JsonText ->
            [matched |-> TRUE, parses |-> TRUE, content |-> Str(ParsedText),
             next_actions |-> Arr(<<"Go on">>)]
      [] text = JsonNoContentText ->
            [matched |-> TRUE, parses |-> TRUE, content |-> Nil,
             next_actions |-> Arr(<<"Retry">>)]
      [] text = JsonContentOnlyText ->
            [matched |-> TRUE, parses |-> TRUE, content |-> Str(ParsedText),
             next_actions |-> Nil]
      [] text \in {JsonBadText, JsonBadBraceText} ->
            [matched |-> TRUE, parses |-> FALSE, content |-> Nil, next_actions |-> Nil]
      [] OTHER ->
            [matched |-> FALSE, parses |-> FALSE, content |-> Nil, next_actions |-> Nil]

\* JSON.stringify of a value that is not a string (an opaque rendering)
Stringify(v) == "<json>"

\* an AdkResponse; isNull is the JSON value null
AdkResult(message, events, final_response, response, text, content, next_actions) ==
    [isNull |-> FALSE, message |-> message, events |-> events,
     final_response |-> final_response, response |-> response, text |-> text,
     content |-> content, next_actions |-> next_actions]
NullResult == [AdkResult(Nil, Nil, Nil, Nil, Nil, Nil, Nil) EXCEPT !.isNull = TRUE]

\* parts[0]?.text when it is truthy, else Nil
FirstPartText(parts) ==
    IF parts.t = "array" /\ Len(parts.v) > 0 /\ Truthy(parts.v[1].text)
    THEN parts.v[1].text ELSE Nil

\* events.find(e => e.event_type === 'FINAL_RESPONSE')?.content?.parts?.[0]?.text
FinalEventText(events) ==
    LET idx == {i \in 1 .. Len(events.v) : events.v[i].event_type = "FINAL_RESPONSE"}
    IN IF idx = {} THEN Nil
       ELSE LET i == CHOOSE i \in idx : \A j \in idx : i <= j
            IN FirstPartText(events.v[i].parts)

\* messages/route.ts extractResponseText, lines 31-40
ExtractNextActions(r) ==
    IF r.message.t = "object" /\ r.message.content.t = "object"
       /\ r.message.content.next_actions.t = "array"
    THEN Actions(r.message.content.next_actions.v)
    ELSE IF r.next_actions.t = "array" THEN Actions(r.next_actions.v)
    ELSE NoActions

\* a variant that goes on to the lower-priority fields when the events array
\* has no FINAL_RESPONSE text
ExtractRawTextFallThrough(r) ==
    IF r.message.t = "object" /\ r.message.content.t = "object"
       /\ FirstPartText(r.message.content.parts) # Nil
    THEN FirstPartText(r.message.content.parts).s
    ELSE IF r.events.t = "array" /\ FinalEventText(r.events) # Nil
    THEN FinalEventText(r.events).s
    ELSE IF r.final_response.t = "object" /\ Truthy(r.final_response.text)
    THEN r.final_response.text.s
    ELSE IF r.response.t = "string" THEN r.response.s
    ELSE IF Truthy(r.text) THEN r.text.s
    ELSE IF Truthy(r.content)
    THEN IF r.content.t = "string" THEN r.content.s ELSE Stringify(r.content)
    ELSE IF Truthy(r.message)
    THEN IF r.message.t = "string" THEN r.message.s
         ELSE IF r.message.text.t = "string" THEN r.message.text.s
         ELSE Stringify(r.message)
    ELSE DefaultText

\* messages/route.ts extractResponseText, lines 42-90
ExtractRawText(r) ==
    IF r.message.t = "object" /\ r.message.content.t = "object"
       /\ FirstPartText(r.message.content.parts) # Nil
    THEN FirstPartText(r.message.content.parts).s
    ELSE IF r.events.t = "array"
    THEN IF FinalEventText(r.events) # Nil THEN FinalEventText(r.events).s
         ELSE DefaultText
    ELSE IF r.final_response.t = "object" /\ Truthy(r.final_response.text)
    THEN r.final_response.text.s
    ELSE IF r.response.t = "string" THEN r.response.s
    ELSE IF Truthy(r.text) THEN r.text.s
    ELSE IF Truthy(r.content)
    THEN IF r.content.t = "string" THEN r.content.s ELSE Stringify(r.content)
    ELSE IF Truthy(r.message)
    THEN IF r.message.t = "string" THEN r.message.s
         ELSE IF r.message.text.t = "string" THEN r.message.text.s
         ELSE Stringify(r.message)
    ELSE DefaultText

\* messages/route.ts extractResponseText
extractResponseText(r) ==
    IF r.isNull THEN [text |-> DefaultText, next_actions |-> NoActions]
    ELSE LET raw == ExtractRawText(r)
             na == ExtractNextActions(r)
             blk == JsonBlock(raw)
         IN IF blk.matched /\ blk.parses
            THEN [text |-> IF Truthy(blk.content) THEN blk.content.s ELSE raw,
                  next_actions |-> IF blk.next_actions.t = "array"
                                   THEN Actions(blk.next_actions.v) ELSE na]
            ELSE [text |-> raw, next_actions |-> na]

----------------------------------------------------------------------------
(* Requests in flight and responses *)

\* history of one request, kept for the properties
\* the app, user and session a request to the ADK service names
NoKey == [app |-> "", user |-> "", session |-> ""]

G0 == [preExists |-> FALSE, preOwner |-> Absent, appended |-> <<>>,
       updates |-> <<>>, calls |-> 0, failed |-> FALSE,
       sessCalls |-> 0, runCalls |-> 0, sessOk |-> FALSE,
       sessKey |-> NoKey, sessStatus |-> -1, runKey |-> NoKey]

\* the fields a PATCH writes: each one provided or not
NoUpdates == [name |-> Nil, description |-> Nil, settings |-> Nil]

IdleReq == [op |-> "idle", pc |-> "idle", uid |-> NoUser, sid |-> ClientId,
            text |-> "", aText |-> "", aNa |-> NoActions, snap |-> {}, doc |-> NoDoc,
            g |-> G0, pid |-> "none", upd |-> NoUpdates, ts |-> 0]

NoResp == [op |-> "none", uid |-> NoUser, sid |-> ClientId, status |-> 0,
           text |-> "", na |-> NoActions, items |-> <<>>, doc |-> NoDoc, g |-> G0,
           pid |-> "none", upd |-> NoUpdates, threw |-> FALSE]

Response(op, uid, sid, status, text, na, items, g) ==
    [op |-> op, uid |-> uid, sid |-> sid, status |-> status, text |-> text,
     na |-> na, items |-> items, doc |-> NoDoc, g |-> g,
     pid |-> "none", upd |-> NoUpdates, threw |-> FALSE]

\* an answer with no body the properties look at
Plain(op, uid, sid, status, g) == Response(op, uid, sid, status, "", NoActions, <<>>, g)

FreeSlots == {s \in Slots : reqs[s].op = "idle"}
FreeSlot == CHOOSE s \in FreeSlots : TRUE
\* a worker is free to take a request; the previous answer has been sent
CanAccept == Cardinality(Slots \ FreeSlots) < workers
CanStart == CanAccept /\ started < MaxRequests

\* the ids a client can name: those handed out so far, and one of its own
KnownIds == (1 .. nextAuto) \cup {ClientId}

Storage == <<sessions, creator, messages, now, nextAuto>>
Config == <<env, workers>>
\* the collections the handlers of sessions and the proxy never touch
\* the runs of initializeUserProfile one sign-in starts: the auth-state
\* callback and the sign-in handler (contexts/AuthContext.tsx)
Runs == {"callback", "handler"}
IdleRun == [pc |-> "idle", uid |-> NoUser, displayName |-> "", snap |-> NoDoc]
NoRuns == [i \in Runs |-> IdleRun]

Elsewhere == <<projects, profiles, inits>>

\* request bodies of POST .../messages
MessageBodies ==
    {[parses |-> FALSE, message |-> Nil, title |-> Nil],
     [parses |-> TRUE, message |-> Nil, title |-> Nil],
     [parses |-> TRUE, message |-> Str(""), title |-> Nil],
     [parses |-> TRUE, message |-> [t |-> "number"], title |-> Nil],
     [parses |-> TRUE, message |-> Str("Hello"), title |-> Nil]}

\* request bodies of POST /api/sessions
SessionBodies ==
    {[parses |-> FALSE, message |-> Nil, title |-> Nil],
     [parses |-> TRUE, message |-> Nil, title |-> Nil],
     [parses |-> TRUE, message |-> Str("Hello"), title |-> Str("My chat")]}

\* what the fetch of the /api/adk proxy can end with
ProxyResults ==
    {AdkResult(Nil, Nil, Nil, Nil, Str(PlainText), Nil, Arr(<<"Go on">>)),
     AdkResult(MessageObj(ContentObj(Arr(<<Part(Str(JsonText))>>), Nil), Nil),
               Nil, Nil, Nil, Nil, Nil, Nil),
     AdkResult(Nil, Arr(<<>>), Nil, Nil, Str(OtherText), Nil, Nil)}

ProxyOutcomes ==
    {[kind |-> k, result |-> NullResult] :
        k \in {"non2xx", "network_error", "timeout", "bad_json"}}
    \cup {[kind |-> "ok", result |-> r] : r \in ProxyResults}

----------------------------------------------------------------------------
(* lib/firebase/firestore.server.ts *)

\* ensureSessionExists: the document written by sessionRef.set
EnsuredSessionDoc(sid, uid) ==
    [exists |-> TRUE, sessionId |-> sid, userId |-> uid, ownerId |-> Absent,
     title |-> Absent, createdAt |-> now, updatedAt |-> now, status |-> "active"]

\* addMessageToSession: `...(next_actions && next_actions.length > 0 && { next_actions })`
StoredActions(na) == IF na.def /\ Len(na.v) > 0 THEN na ELSE NoActions

----------------------------------------------------------------------------
(* POST /api/sessions/{sessionId}/messages  (messages/route.ts, POST) *)

\* lines 123-159: the answer before any store access, 0 when there is none
MessagesPrecheck(h, body) ==
    IF InlineAuth(h) = NoUser THEN 401
    ELSE IF ~body.parses THEN 400
    ELSE IF ~(body.message.t = "string" /\ body.message.s # "") THEN 400
    ELSE 0

\* lines 112-163: authentication, body checks, then ensureSessionExists' get
MessagesStart(h, sid, body) ==
    LET uid == InlineAuth(h)
        early == MessagesPrecheck(h, body)
    IN IF early # 0
       THEN /\ CanAccept
            /\ resp' = Plain("POST_MSG", uid, sid, early, G0)
            /\ UNCHANGED <<Storage, reqs, started, Config, Elsewhere>>
       ELSE /\ CanStart
            /\ reqs' = [reqs EXCEPT ![FreeSlot] =
                   [IdleReq EXCEPT !.op = "POST_MSG",
                      !.pc = IF SessionExists(sid) THEN "addUser" ELSE "ensureSet",
                      !.uid = uid, !.sid = sid, !.text = body.message.s,
                      !.g = [G0 EXCEPT !.preExists = SessionExists(sid),
                               !.preOwner = IF SessionExists(sid)
                                            THEN sessions[sid].ownerId ELSE Absent]]]
            /\ started' = started + 1
            /\ resp' = NoResp
            /\ UNCHANGED <<Storage, Config, Elsewhere>>

\* ensureSessionExists, lines 68-74 of firestore.server.ts: sessionRef.set
MessagesEnsureSet(s) ==
    LET r == reqs[s]
    IN /\ r.op = "POST_MSG" /\ r.pc = "ensureSet"
       /\ sessions' = [sessions EXCEPT ![r.sid] = EnsuredSessionDoc(r.sid, r.uid)]
       /\ creator' = [creator EXCEPT ![r.sid] = r.uid]
       /\ now' = now + 1
       /\ reqs' = [reqs EXCEPT ![s].pc = "addUser"]
       /\ resp' = NoResp
       /\ UNCHANGED <<messages, nextAuto, started, Config, Elsewhere>>

\* addMessageToSession, messagesRef.add: the user's message (route.ts line 167)
MessagesAddUser(s) ==
    LET r == reqs[s]
        doc == AddMessageDoc(r.sid, "user", r.text, NoActions)
    IN /\ r.op = "POST_MSG" /\ r.pc = "addUser"
       /\ messages' = messages \cup {doc}
       /\ now' = now + 1
       /\ reqs' = [reqs EXCEPT ![s].pc = "updUser",
                               ![s].g.appended = Append(@, doc)]
       /\ resp' = NoResp
       /\ UNCHANGED <<sessions, creator, nextAuto, started, Config, Elsewhere>>

\* a variant that sends the fetch without the update of updatedAt
MessagesUpdateUserSkipped(s) ==
    LET r == reqs[s]
    IN /\ r.op = "POST_MSG" /\ r.pc = "updUser"
       /\ reqs' = [reqs EXCEPT ![s].pc = "agent", ![s].g.calls = @ + 1]
       /\ resp' = NoResp
       /\ UNCHANGED <<Storage, started, Config, Elsewhere>>

\* addMessageToSession, sessionRef.update, which rejects when the document is
\* gone; then the fetch of the proxy is sent (route.ts lines 171-188)
MessagesUpdateUser(s) ==
    LET r == reqs[s]
    IN /\ r.op = "POST_MSG" /\ r.pc = "updUser"
       /\ IF SessionExists(r.sid)
          THEN /\ sessions' = [sessions EXCEPT ![r.sid].updatedAt = now]
               /\ now' = now + 1
               /\ reqs' = [reqs EXCEPT ![s].pc = "agent",
                                       ![s].g.updates = Append(@, now),
                                       ![s].g.calls = @ + 1]
               /\ resp' = NoResp
          ELSE /\ resp' = Plain("POST_MSG", r.uid, r.sid, 500, r.g)
               /\ reqs' = [reqs EXCEPT ![s] = IdleReq]
               /\ UNCHANGED <<sessions, now>>
       /\ UNCHANGED <<creator, messages, nextAuto, started, Config, Elsewhere>>

\* a variant that sends the fetch of the proxy a second time when the first
\* one fails
MessagesAgentDoneRetry(s, o) ==
    LET r == reqs[s]
        ex == extractResponseText(o.result)
    IN /\ r.op = "POST_MSG" /\ r.pc = "agent"
       /\ IF o.kind # "ok" /\ r.g.calls < 2
          THEN reqs' = [reqs EXCEPT ![s].g.calls = @ + 1]
          ELSE reqs' = [reqs EXCEPT ![s].pc = "addAsst",
                          ![s].aText = IF o.kind = "ok" THEN ex.text ELSE FallbackText,
                          ![s].aNa = IF o.kind = "ok" THEN ex.next_actions ELSE NoActions,
                          ![s].g.failed = (o.kind # "ok")]
       /\ resp' = NoResp
       /\ UNCHANGED <<Storage, started, Config, Elsewhere>>

\* a variant that has no inner catch: a failed call goes to the outer catch
MessagesAgentDoneUncaught(s, o) ==
    LET r == reqs[s]
        ex == extractResponseText(o.result)
    IN /\ r.op = "POST_MSG" /\ r.pc = "agent"
       /\ IF o.kind = "ok"
          THEN /\ reqs' = [reqs EXCEPT ![s].pc = "addAsst", ![s].aText = ex.text,
                                       ![s].aNa = ex.next_actions]
               /\ resp' = NoResp
          ELSE /\ reqs' = [reqs EXCEPT ![s] = IdleReq]
               /\ resp' = Plain("POST_MSG", r.uid, r.sid, 500,
                                [r.g EXCEPT !.failed = TRUE])
       /\ UNCHANGED <<Storage, started, Config, Elsewhere>>

\* lines 176-208: the proxy answers, fails, or the 60 s timeout aborts the fetch
MessagesAgentDone(s, o) ==
    LET r == reqs[s]
        ex == extractResponseText(o.result)
    IN /\ r.op = "POST_MSG" /\ r.pc = "agent"
       /\ reqs' = [reqs EXCEPT ![s].pc = "addAsst",
                     ![s].aText = IF o.kind = "ok" THEN ex.text ELSE FallbackText,
                     ![s].aNa = IF o.kind = "ok" THEN ex.next_actions ELSE NoActions,
                     ![s].g.failed = (o.kind # "ok")]
       /\ resp' = NoResp
       /\ UNCHANGED <<Storage, started, Config, Elsewhere>>

\* addMessageToSession, messagesRef.add: the assistant's message (line 212)
MessagesAddAssistant(s) ==
    LET r == reqs[s]
        doc == AddMessageDoc(r.sid, "assistant", r.aText, StoredActions(r.aNa))
    IN /\ r.op = "POST_MSG" /\ r.pc = "addAsst"
       /\ messages' = messages \cup {doc}
       /\ now' = now + 1
       /\ reqs' = [reqs EXCEPT ![s].pc = "updAsst",
                               ![s].g.appended = Append(@, doc)]
       /\ resp' = NoResp
       /\ UNCHANGED <<sessions, creator, nextAuto, started, Config, Elsewhere>>

\* addMessageToSession, sessionRef.update, then the answer (lines 220-235)
MessagesUpdateAssistant(s) ==
    LET r == reqs[s]
    IN /\ r.op = "POST_MSG" /\ r.pc = "updAsst"
       /\ IF SessionExists(r.sid)
          THEN /\ sessions' = [sessions EXCEPT ![r.sid].updatedAt = now]
               /\ now' = now + 1
               /\ resp' = Response("POST_MSG", r.uid, r.sid, 200, r.aText, r.aNa,
                                   <<>>, [r.g EXCEPT !.updates = Append(@, now)])
          ELSE /\ resp' = Plain("POST_MSG", r.uid, r.sid, 500, r.g)
               /\ UNCHANGED <<sessions, now>>
       /\ reqs' = [reqs EXCEPT ![s] = IdleReq]
       /\ UNCHANGED <<creator, messages, nextAuto, started, Config, Elsewhere>>

----------------------------------------------------------------------------
(* GET and DELETE /api/sessions/{sessionId}  (sessions/[sessionId]/route.ts) *)

\* a variant of the decision that compares the owner before it looks at
\* whether the document exists
GetSessionDecisionOwnerFirst(h, sid) ==
    IF verifyAuthToken(h) = NoUser THEN 401
    ELSE IF ~SessionExists(sid) THEN 403
    ELSE IF sessions[sid].ownerId # verifyAuthToken(h) THEN 403
    ELSE 0

\* GET, lines 24-49: the answer decided by the token and the session document,
\* 0 when the handler goes on to read the messages
GetSessionDecision(h, sid) ==
    IF verifyAuthToken(h) = NoUser THEN 401
    ELSE IF ~SessionExists(sid) THEN 404
    ELSE IF sessions[sid].ownerId # verifyAuthToken(h) THEN 403
    ELSE 0

\* GET, lines 19-49
GetSessionStart(h, sid) ==
    LET uid == verifyAuthToken(h)
        d == GetSessionDecision(h, sid)
    IN IF d # 0
       THEN /\ CanAccept
            /\ resp' = Plain("GET_SESSION", uid, sid, d, G0)
            /\ UNCHANGED <<Storage, reqs, started, Config, Elsewhere>>
       ELSE /\ CanStart
            /\ reqs' = [reqs EXCEPT ![FreeSlot] =
                   [IdleReq EXCEPT !.op = "GET_SESSION", !.pc = "readMsgs",
                                   !.uid = uid, !.sid = sid, !.doc = sessions[sid]]]
            /\ started' = started + 1
            /\ resp' = NoResp
            /\ UNCHANGED <<Storage, Config, Elsewhere>>

\* GET, lines 55-66: one message of the answer; next_actions is
\* msgData.next_actions || [], role and metadata are copied from the document
\* (undefined for the documents this model stores)
MessageResponse(m) ==
    [messageId |-> m.id, sender |-> m.sender, text |-> m.text,
     createdAt |-> m.createdAt, role |-> Nil, metadata |-> Nil,
     next_actions |-> IF m.next_actions.def THEN m.next_actions ELSE Actions(<<>>)]

\* GET, lines 51-80: the messages query and the answer
GetSessionMessages(s) ==
    LET r == reqs[s]
        docs == OrderByCreatedAtAsc(MessagesOf(r.sid))
    IN /\ r.op = "GET_SESSION" /\ r.pc = "readMsgs"
       /\ resp' = [Response("GET_SESSION", r.uid, r.sid, 200, "", NoActions,
                            [i \in 1 .. Len(docs) |-> MessageResponse(docs[i])], G0)
                   EXCEPT !.doc = r.doc]
       /\ reqs' = [reqs EXCEPT ![s] = IdleReq]
       /\ UNCHANGED <<Storage, started, Config, Elsewhere>>

\* a variant of the decision without the comparison of the owner
DeleteDecisionAnyCaller(h, sid) ==
    IF verifyAuthToken(h) = NoUser THEN 401
    ELSE IF ~SessionExists(sid) THEN 204
    ELSE 0

\* DELETE, lines 94-119: the answer decided by the token and the session
\* document, 0 when the handler goes on to delete
DeleteDecision(h, sid) ==
    IF verifyAuthToken(h) = NoUser THEN 401
    ELSE IF ~SessionExists(sid) THEN 204
    ELSE IF sessions[sid].ownerId # verifyAuthToken(h) THEN 403
    ELSE 0

\* DELETE, lines 89-119
DeleteStart(h, sid) ==
    LET uid == verifyAuthToken(h)
        d == DeleteDecision(h, sid)
    IN IF d # 0
       THEN /\ CanAccept
            /\ resp' = Plain("DELETE", uid, sid, d, G0)
            /\ UNCHANGED <<Storage, reqs, started, Config, Elsewhere>>
       ELSE /\ CanStart
            /\ reqs' = [reqs EXCEPT ![FreeSlot] =
                   [IdleReq EXCEPT !.op = "DELETE", !.pc = "query",
                                   !.uid = uid, !.sid = sid,
                                   !.g = [G0 EXCEPT !.preExists = TRUE,
                                            !.preOwner = sessions[sid].ownerId]]]
            /\ started' = started + 1
            /\ resp' = NoResp
            /\ UNCHANGED <<Storage, Config, Elsewhere>>

\* the sets of k documents of M that a query limited to Cardinality(M) - k
\* documents can leave out
RECURSIVE LeftOut(_, _)
LeftOut(M, k) ==
    IF k = 0 THEN {{}}
    ELSE UNION {{D \cup {m} : D \in LeftOut(M \ {m}, k - 1)} : m \in M}

\* messagesRef.limit(500).get(): at most 500 documents, in document-id order,
\* and the ids are random
LimitedSnapshots(sid) ==
    IF Cardinality(MessagesOf(sid)) <= DeleteBatchLimit
    THEN {MessagesOf(sid)}
    ELSE {MessagesOf(sid) \ D :
            D \in LeftOut(MessagesOf(sid),
                          Cardinality(MessagesOf(sid)) - DeleteBatchLimit)}

\* DELETE, lines 125-127
DeleteQuery(s) ==
    LET r == reqs[s]
    IN /\ r.op = "DELETE" /\ r.pc = "query"
       /\ \E snap \in LimitedSnapshots(r.sid) :
            reqs' = [reqs EXCEPT ![s].snap = snap,
                                 ![s].pc = IF snap = {} THEN "deleteDoc" ELSE "batch"]
       /\ resp' = NoResp
       /\ UNCHANGED <<Storage, started, Config, Elsewhere>>

\* DELETE, lines 128-135: batch.commit()
DeleteBatch(s) ==
    LET r == reqs[s]
    IN /\ r.op = "DELETE" /\ r.pc = "batch"
       /\ messages' = messages \ r.snap
       /\ reqs' = [reqs EXCEPT ![s].pc = "deleteDoc"]
       /\ resp' = NoResp
       /\ UNCHANGED <<sessions, creator, now, nextAuto, started, Config, Elsewhere>>

\* DELETE, lines 138-141: sessionRef.delete() and the answer
DeleteDoc(s) ==
    LET r == reqs[s]
    IN /\ r.op = "DELETE" /\ r.pc = "deleteDoc"
       /\ sessions' = [sessions EXCEPT ![r.sid] = NoDoc]
       /\ resp' = Plain("DELETE", r.uid, r.sid, 204, r.g)
       /\ reqs' = [reqs EXCEPT ![s] = IdleReq]
       /\ UNCHANGED <<creator, messages, now, nextAuto, started, Config, Elsewhere>>

----------------------------------------------------------------------------
(* GET and POST /api/sessions  (sessions/route.ts) *)

\* a variant of the query without its where clause
OwnedSessionsQueryUnfiltered(uid) ==
    OrderByUpdatedAtDesc({sid \in SessionIds : SessionExists(sid)})

\* GET, lines 61-64: where('ownerId', '==', userId).orderBy('updatedAt', 'desc')
OwnedSessionsQuery(uid) ==
    OrderByUpdatedAtDesc({sid \in SessionIds :
                            SessionExists(sid) /\ sessions[sid].ownerId = uid})

\* GET, lines 32-84
ListSessions(h) ==
    LET uid == InlineAuth(h)
    IN /\ CanAccept
       /\ resp' = IF uid = NoUser
                  THEN Plain("LIST_SESSIONS", uid, ClientId, 401, G0)
                  ELSE Response("LIST_SESSIONS", uid, ClientId, 200, "", NoActions,
                                OwnedSessionsQuery(uid), G0)
       /\ UNCHANGED <<Storage, reqs, started, Config, Elsewhere>>

\* a variant that writes the uid to userId, as ensureSessionExists does
NewSessionDocUserId(uid, body) ==
    [exists |-> TRUE, sessionId |-> Absent, userId |-> uid, ownerId |-> Absent,
     title |-> IF body.parses /\ Truthy(body.title) THEN body.title.s
               ELSE "Session started <date>",
     createdAt |-> now, updatedAt |-> now, status |-> "active"]

\* POST, lines 137-143
NewSessionDoc(uid, body) ==
    [exists |-> TRUE, sessionId |-> Absent, userId |-> Absent, ownerId |-> uid,
     title |-> IF body.parses /\ Truthy(body.title) THEN body.title.s
               ELSE "Session started <date>",
     createdAt |-> now, updatedAt |-> now, status |-> "active"]

\* POST, lines 115-129: requestBody?.message, kept when truthy
InitialMessage(body) ==
    IF body.parses /\ Truthy(body.message)
    THEN IF body.message.t = "string" THEN body.message.s ELSE "<number>"
    ELSE ""

\* POST, lines 87-153 and 197-209: authentication, the new session document,
\* and the answer when there is no initial message
SessionsCreate(h, body) ==
    LET uid == InlineAuth(h)
        sid == nextAuto + 1
    IN IF uid = NoUser
       THEN /\ CanAccept
            /\ resp' = Plain("POST_SESSION", uid, ClientId, 401, G0)
            /\ UNCHANGED <<Storage, reqs, started, Config, Elsewhere>>
       ELSE /\ CanStart /\ nextAuto < MaxSessions
            /\ sessions' = [sessions EXCEPT ![sid] = NewSessionDoc(uid, body)]
            /\ creator' = [creator EXCEPT ![sid] = uid]
            /\ nextAuto' = sid
            /\ now' = now + 1
            /\ started' = started + 1
            /\ IF InitialMessage(body) = ""
               THEN /\ resp' = Plain("POST_SESSION", uid, sid, 201, G0)
                    /\ UNCHANGED reqs
               ELSE /\ resp' = NoResp
                    /\ reqs' = [reqs EXCEPT ![FreeSlot] =
                           [IdleReq EXCEPT !.op = "POST_SESSION", !.pc = "addUser",
                              !.uid = uid, !.sid = sid, !.text = InitialMessage(body)]]
            /\ UNCHANGED <<messages, Config, Elsewhere>>

\* addAdminMessageToSession, line 25: the initial user message
SessionsAddUser(s) ==
    LET r == reqs[s]
        doc == AddMessageDoc(r.sid, "user", r.text, NoActions)
    IN /\ r.op = "POST_SESSION" /\ r.pc = "addUser"
       /\ messages' = messages \cup {doc}
       /\ now' = now + 1
       /\ reqs' = [reqs EXCEPT ![s].pc = "updUser",
                               ![s].g.appended = Append(@, doc)]
       /\ resp' = NoResp
       /\ UNCHANGED <<sessions, creator, nextAuto, started, Config, Elsewhere>>

\* addAdminMessageToSession, line 26, then the fetch of the agent's /run
\* (lines 156-168), sent without a timeout
SessionsUpdateUser(s) ==
    LET r == reqs[s]
    IN /\ r.op = "POST_SESSION" /\ r.pc = "updUser"
       /\ IF SessionExists(r.sid)
          THEN /\ sessions' = [sessions EXCEPT ![r.sid].updatedAt = now]
               /\ now' = now + 1
               /\ reqs' = [reqs EXCEPT ![s].pc = "agent",
                                       ![s].g.updates = Append(@, now),
                                       ![s].g.calls = @ + 1]
               /\ resp' = NoResp
          ELSE /\ resp' = Plain("POST_SESSION", r.uid, r.sid, 500, r.g)
               /\ reqs' = [reqs EXCEPT ![s] = IdleReq]
               /\ UNCHANGED <<sessions, now>>
       /\ UNCHANGED <<creator, messages, nextAuto, started, Config, Elsewhere>>

\* what the agent's /run can answer to the initial message
RunResults ==
    {AdkResult(Nil, Arr(<<EventObj("FINAL_RESPONSE", Arr(<<Part(Str(PlainText))>>))>>),
               Nil, Nil, Nil, Nil, Nil),
     AdkResult(Nil, Nil, Nil, Nil, Str(OtherText), Nil, Nil)}

RunOutcomes ==
    {[kind |-> k, result |-> NullResult] : k \in {"non2xx", "network_error"}}
    \cup {[kind |-> "ok", result |-> r] : r \in RunResults}

\* POST, lines 172-180
InitialAssistantText(r) ==
    IF ~r.isNull /\ r.events.t = "array"
    THEN IF FinalEventText(r.events) # Nil THEN FinalEventText(r.events).s
         ELSE AckText
    ELSE IF ~r.isNull /\ r.final_response.t = "object" /\ Truthy(r.final_response.text)
    THEN r.final_response.text.s
    ELSE AckText

\* POST, lines 163-194: the agent answers or the fetch fails; there is no
\* timeout, so without an answer this step never happens
SessionsAgentDone(s, o) ==
    LET r == reqs[s]
    IN /\ r.op = "POST_SESSION" /\ r.pc = "agent"
       /\ IF o.kind = "ok"
          THEN /\ reqs' = [reqs EXCEPT ![s].pc = "addAsst",
                                       ![s].aText = InitialAssistantText(o.result)]
               /\ resp' = NoResp
          ELSE /\ reqs' = [reqs EXCEPT ![s] = IdleReq]
               /\ resp' = Plain("POST_SESSION", r.uid, r.sid, 201,
                                [r.g EXCEPT !.failed = TRUE])
       /\ UNCHANGED <<Storage, started, Config, Elsewhere>>

\* addAdminMessageToSession, line 25: the assistant's first message
SessionsAddAssistant(s) ==
    LET r == reqs[s]
        doc == AddMessageDoc(r.sid, "assistant", r.aText, NoActions)
    IN /\ r.op = "POST_SESSION" /\ r.pc = "addAsst"
       /\ messages' = messages \cup {doc}
       /\ now' = now + 1
       /\ reqs' = [reqs EXCEPT ![s].pc = "updAsst",
                               ![s].g.appended = Append(@, doc)]
       /\ resp' = NoResp
       /\ UNCHANGED <<sessions, creator, nextAuto, started, Config, Elsewhere>>

\* addAdminMessageToSession, line 26, then the answer (lines 183-209); an
\* update that rejects is caught with the fetch errors (line 192) and the
\* answer is 201 without an assistant message
SessionsUpdateAssistant(s) ==
    LET r == reqs[s]
    IN /\ r.op = "POST_SESSION" /\ r.pc = "updAsst"
       /\ IF SessionExists(r.sid)
          THEN /\ sessions' = [sessions EXCEPT ![r.sid].updatedAt = now]
               /\ now' = now + 1
               /\ resp' = Response("POST_SESSION", r.uid, r.sid, 201, r.aText,
                                   NoActions, <<>>,
                                   [r.g EXCEPT !.updates = Append(@, now)])
          ELSE /\ resp' = Plain("POST_SESSION", r.uid, r.sid, 201, r.g)
               /\ UNCHANGED <<sessions, now>>
       /\ reqs' = [reqs EXCEPT ![s] = IdleReq]
       /\ UNCHANGED <<creator, messages, nextAuto, started, Config, Elsewhere>>

----------------------------------------------------------------------------
(* POST /api/adk  (adk/route.ts): the proxy to the ADK service *)

\* lines 15-18: useCloudADK or not bypassAuth, and DEBUG_ADK_INTEGRATION
Envs == [needAuth : BOOLEAN, debugMode : BOOLEAN]

AdkBodies ==
    {[parses |-> FALSE, message |-> Nil, sessionId |-> Nil],
     [parses |-> TRUE, message |-> Nil, sessionId |-> Nil],
     [parses |-> TRUE, message |-> Str("   "), sessionId |-> Nil],
     [parses |-> TRUE, message |-> Str("Hello"), sessionId |-> Nil],
     [parses |-> TRUE, message |-> Str("Hello"), sessionId |-> Str("session-456")],
     [parses |-> TRUE, message |-> Str("Hello"), sessionId |-> JsNumber]}

\* line 212: sessionId || uuid(); Uuid is the id uuid() returns
Uuid == "1b9d6bcd-bbfd-4b2d-9b5d-ab8dfbbd4bed"
finalSessionId(body) ==
    IF Truthy(body.sessionId) THEN body.sessionId.s ELSE Uuid

\* line 213: `user-${finalSessionId.substring(0, 8)}`
userId(fsid) == IF fsid = Uuid THEN "user-1b9d6bcd" ELSE "user-session-"

\* line 214
appName == "ai-agent"

\* the app, user and session of the URL of ensureSession (line 141) and of
\* the payload of the run request (lines 260-263)
AdkKey(fsid) == [app |-> appName, user |-> userId(fsid), session |-> fsid]

\* String.prototype.trim() leaves nothing
Blank(x) == x \in {"", "   "}

\* lines 195-251: the answer before any request to the ADK service, 0 when
\* there is none.  tokenOk: getCloudRunIdToken / getFirebaseAdminToken gave a token
AdkPrecheck(h, body, tokenOk) ==
    IF ~body.parses THEN 500
    ELSE IF body.sessionId.t = "number" THEN 500
    ELSE IF ~(body.message.t = "string" /\ ~Blank(body.message.s)) THEN 400
    ELSE IF env.needAuth /\ ~tokenOk THEN 500
    ELSE 0

\* lines 194-254: up to the fetch of ensureSession (lines 148-155).  The
\* handler does not read the Authorization header; uid records whose token
\* the request carried
AdkStart(h, body, tokenOk) ==
    LET uid == verifyAuthToken(h)
        early == AdkPrecheck(h, body, tokenOk)
    IN IF early # 0
       THEN /\ CanAccept
            /\ resp' = Plain("POST_ADK", uid, ClientId, early, G0)
            /\ UNCHANGED <<Storage, reqs, started, Config, Elsewhere>>
       ELSE /\ CanStart
            /\ reqs' = [reqs EXCEPT ![FreeSlot] =
                   [IdleReq EXCEPT !.op = "POST_ADK", !.pc = "adkSession",
                                   !.uid = uid, !.text = body.message.s,
                                   !.g = [G0 EXCEPT
                                            !.sessCalls = 1,
                                            !.sessKey =
                                                AdkKey(finalSessionId(body))]]]
            /\ started' = started + 1
            /\ resp' = NoResp
            /\ UNCHANGED <<Storage, Config, Elsewhere>>

\* answers of the ADK service to the session creation; status 0: fetch rejected
SessionAnswers ==
    {[status |-> c, textFails |-> f] : c \in {0, 200, 201, 400, 500}, f \in BOOLEAN}

\* a variant that takes every answer of the service for a success
ensureSessionAnyAnswer(a) == a.status # 0

\* ensureSession, lines 157-174: the boolean it returns
ensureSession(a) ==
    IF a.status = 0 THEN FALSE
    ELSE IF env.debugMode /\ ~a.textFails THEN a.status = 200 \/ a.status = 400
    ELSE (a.status >= 200 /\ a.status <= 299) \/ a.status = 400

\* lines 254-285: ensureSession returns; on success the run request is sent
AdkSessionDone(s, a) ==
    LET r == reqs[s]
    IN /\ r.op = "POST_ADK" /\ r.pc = "adkSession"
       /\ IF ensureSession(a)
          THEN /\ reqs' = [reqs EXCEPT ![s].pc = "adkRun",
                                       ![s].g.sessOk = TRUE,
                                       ![s].g.sessStatus = a.status,
                                       ![s].g.runCalls = @ + 1,
                                       ![s].g.runKey =
                                           AdkKey(r.g.sessKey.session)]
               /\ resp' = NoResp
          ELSE /\ reqs' = [reqs EXCEPT ![s] = IdleReq]
               /\ resp' = Plain("POST_ADK", r.uid, r.sid, 500,
                                [r.g EXCEPT !.sessStatus = a.status])
       /\ UNCHANGED <<Storage, started, Config, Elsewhere>>

\* the string between the fences of JsonBadText (jsonMatch[1])
NotJsonInner == "not json at all"

\* parseAdkJsonContentString, lines 177-192, applied to the block of a text;
\* text Nil stands for null.  When JSON.parse throws, a block that does not
\* start with "{" is itself the text
parseAdkJsonContentString(text) ==
    LET blk == JsonBlock(text)
    IN IF blk.parses
       THEN [text |-> IF Truthy(blk.content) THEN blk.content ELSE Nil,
             next_actions |-> IF Truthy(blk.next_actions)
                              THEN blk.next_actions.v ELSE <<>>]
       ELSE IF text = JsonBadBraceText
       THEN [text |-> Nil, next_actions |-> <<>>]
       ELSE [text |-> Str(NotJsonInner), next_actions |-> <<>>]

\* the SSE events of a run: event.content.parts[0].text of each kind of data
\* event, Nil for an event without content and for data that is not JSON
SseEventText(e) ==
    CASE e = "plain" -> Str(PlainText)
      [] e = "final" -> Str(JsonText)
      [] e = "final_no_na" -> Str(JsonContentOnlyText)
      [] e = "no_content" -> Str(JsonNoContentText)
      [] e = "bad_block" -> Str(JsonBadText)
      [] e = "bad_brace" -> Str(JsonBadBraceText)
      [] OTHER -> Nil

SseStreams ==
    {<<>>, <<"plain">>, <<"plain", "final">>, <<"final", "bad_data">>,
     <<"no_content">>, <<"no_data">>, <<"final_no_na">>, <<"bad_block">>,
     <<"bad_brace">>, <<"final", "bad_block">>}

\* answers of the ADK service to the run request; status 0: fetch rejected
RunAnswers ==
    {[status |-> c, body |-> FALSE, stream |-> <<>>] : c \in {0, 200, 404, 500}}
    \cup {[status |-> 200, body |-> TRUE, stream |-> st] : st \in SseStreams}

\* lines 335-354: what one event gives for finalApiResponse, text Nil when
\* the event leaves it alone
EventResponse(e) ==
    IF Truthy(SseEventText(e)) /\ JsonBlock(SseEventText(e).s).matched
    THEN parseAdkJsonContentString(SseEventText(e).s)
    ELSE [text |-> Nil, next_actions |-> <<>>]

\* lines 310-389: finalApiResponse is set by an event whose json block gives
\* a text
StreamHasFinal(st) == \E i \in 1 .. Len(st) : EventResponse(st[i]).text # Nil

\* lines 310-389: finalApiResponse after the loop, set by the last such event
finalApiResponse(st) ==
    LET idx == {i \in 1 .. Len(st) : EventResponse(st[i]).text # Nil}
    IN EventResponse(st[CHOOSE i \in idx : \A j \in idx : j <= i])

\* lines 287-395: the status answered after the run request
AdkRunStatus(a) ==
    IF a.status = 0 THEN 500
    ELSE IF ~(a.status >= 200 /\ a.status <= 299) THEN a.status
    ELSE IF ~a.body THEN 500
    ELSE IF StreamHasFinal(a.stream) THEN 200
    ELSE 500

\* lines 281-395: the run request ends; there is no timeout, so without an
\* answer this step never happens
AdkRunDone(s, a) ==
    LET r == reqs[s]
    IN /\ r.op = "POST_ADK" /\ r.pc = "adkRun"
       /\ reqs' = [reqs EXCEPT ![s] = IdleReq]
       /\ resp' = IF AdkRunStatus(a) = 200
                  THEN Response("POST_ADK", r.uid, r.sid, 200,
                                finalApiResponse(a.stream).text.s,
                                Actions(finalApiResponse(a.stream).next_actions),
                                <<>>, r.g)
                  ELSE Plain("POST_ADK", r.uid, r.sid, AdkRunStatus(a), r.g)
       /\ UNCHANGED <<Storage, started, Config, Elsewhere>>

----------------------------------------------------------------------------
(* /api/projects/{projectId} and /api/projects/{projectId}/download         *)
(* (projects/[projectId]/route.ts, and the download handler kept in         *)
(* projects/route.ts).  No handler creates a project: the documents are     *)
(* written by other parts of the system.                                    *)

\* FirestoreProjectData; isPublic is optional
ProjectDocs ==
    {[exists |-> TRUE, ownerId |-> o, name |-> Str("Site"), description |-> Nil,
      createdAt |-> 0, updatedAt |-> 0, sessionId |-> "s1", storagePath |-> sp,
      isPublic |-> pub, files |-> <<"index.html">>] :
        o \in Users, sp \in {Absent, "projects/site.zip"},
        pub \in {"undefined", "false", "true"}}

\* request bodies of PATCH: not JSON, the JSON value null, or an object
ProjectBodies ==
    {[parses |-> FALSE, isNull |-> FALSE, name |-> Nil, description |-> Nil],
     [parses |-> TRUE, isNull |-> TRUE, name |-> Nil, description |-> Nil]}
    \cup {[parses |-> TRUE, isNull |-> FALSE, name |-> n, description |-> d] :
            n \in {Nil, Str("Renamed"), JsNull}, d \in {Nil, Str("New text")}}

\* an answer of a projects handler: doc is the document the handler read,
\* upd the fields the request provided; threw records that reading the body
\* threw (request.json() rejected, or null was destructured)
ProjectResponse(op, uid, pid, status, doc, upd) ==
    [NoResp EXCEPT !.op = op, !.uid = uid, !.pid = pid, !.status = status,
                   !.doc = doc, !.upd = upd]

\* GET, lines 19-68
ProjectGetDecision(h, pid) ==
    IF verifyAuthToken(h) = NoUser THEN 401
    ELSE IF ~projects[pid].exists THEN 404
    ELSE IF projects[pid].ownerId # verifyAuthToken(h)
            /\ projects[pid].isPublic # "true" THEN 403
    ELSE 200

\* GET, lines 14-74
ProjectGet(h, pid) ==
    /\ CanAccept
    /\ resp' = ProjectResponse("GET_PROJECT", verifyAuthToken(h), pid,
                               ProjectGetDecision(h, pid), projects[pid], NoUpdates)
    /\ UNCHANGED <<Storage, reqs, started, Config, Elsewhere>>

\* GET download, lines 73-123 of projects/route.ts
ProjectDownloadDecision(h, pid) ==
    IF verifyAuthToken(h) = NoUser THEN 401
    ELSE IF ~projects[pid].exists THEN 404
    ELSE IF projects[pid].ownerId # verifyAuthToken(h) THEN 403
    ELSE IF projects[pid].storagePath = Absent THEN 404
    ELSE 200

\* GET download, lines 68-135 of projects/route.ts
ProjectDownload(h, pid) ==
    /\ CanAccept
    /\ resp' = ProjectResponse("DOWNLOAD_PROJECT", verifyAuthToken(h), pid,
                               ProjectDownloadDecision(h, pid), projects[pid],
                               NoUpdates)
    /\ UNCHANGED <<Storage, reqs, started, Config, Elsewhere>>

\* PATCH, lines 112-115: the fields that were provided (not undefined)
ProjectUpdates(body) ==
    [NoUpdates EXCEPT !.name = body.name, !.description = body.description]

\* a variant that lets anybody update a public project, as GET lets
\* anybody read it
ProjectPatchDecisionPublic(h, pid, body) ==
    IF verifyAuthToken(h) = NoUser THEN 401
    ELSE IF ~body.parses \/ body.isNull THEN 500
    ELSE IF ~projects[pid].exists THEN 404
    ELSE IF projects[pid].ownerId # verifyAuthToken(h)
            /\ projects[pid].isPublic # "true" THEN 403
    ELSE IF ProjectUpdates(body) = NoUpdates THEN 400
    ELSE 0

\* PATCH, lines 82-120: the answer before any write, 0 when there is none;
\* request.json() and the destructuring of null throw into the catch
ProjectPatchDecision(h, pid, body) ==
    IF verifyAuthToken(h) = NoUser THEN 401
    ELSE IF ~body.parses \/ body.isNull THEN 500
    ELSE IF ~projects[pid].exists THEN 404
    ELSE IF projects[pid].ownerId # verifyAuthToken(h) THEN 403
    ELSE IF ProjectUpdates(body) = NoUpdates THEN 400
    ELSE 0

\* PATCH, lines 77-123: up to updates.updatedAt = Timestamp.now(), which the
\* handler evaluates before it awaits the update
ProjectPatchStart(h, pid, body) ==
    LET uid == verifyAuthToken(h)
        d == ProjectPatchDecision(h, pid, body)
    IN IF d # 0
       THEN /\ CanAccept
            /\ resp' = [ProjectResponse("PATCH_PROJECT", uid, pid, d,
                                        projects[pid], ProjectUpdates(body))
                          EXCEPT !.threw = /\ uid # NoUser
                                           /\ (~body.parses \/ body.isNull)]
            /\ UNCHANGED <<Storage, reqs, started, Config, Elsewhere>>
       ELSE /\ CanStart
            /\ reqs' = [reqs EXCEPT ![FreeSlot] =
                   [IdleReq EXCEPT !.op = "PATCH_PROJECT", !.pc = "update",
                                   !.uid = uid, !.pid = pid, !.doc = projects[pid],
                                   !.upd = ProjectUpdates(body), !.ts = now]]
            /\ started' = started + 1
            /\ resp' = NoResp
            /\ UNCHANGED <<Storage, Config, Elsewhere>>

\* a variant that writes with DocumentReference.set(updates), which replaces
\* the whole document
ApplyProjectUpdatesSet(doc, upd, t) ==
    [doc EXCEPT !.name = upd.name, !.description = upd.description,
                !.updatedAt = t, !.storagePath = Absent, !.isPublic = "undefined",
                !.files = <<>>]

\* DocumentReference.update(updates): the provided fields and updatedAt
ApplyProjectUpdates(doc, upd, t) ==
    [doc EXCEPT !.name = IF upd.name # Nil THEN upd.name ELSE @,
                !.description = IF upd.description # Nil THEN upd.description ELSE @,
                !.updatedAt = t]

\* PATCH, line 125: projectRef.update(updates) with the timestamp taken
\* before the call; it rejects when the document is gone
ProjectPatchUpdate(s) ==
    LET r == reqs[s]
    IN /\ r.op = "PATCH_PROJECT" /\ r.pc = "update"
       /\ IF projects[r.pid].exists
          THEN /\ projects' = [projects EXCEPT
                                 ![r.pid] = ApplyProjectUpdates(@, r.upd, r.ts)]
               /\ now' = now + 1
               /\ reqs' = [reqs EXCEPT ![s].pc = "reread"]
               /\ resp' = NoResp
          ELSE /\ resp' = ProjectResponse("PATCH_PROJECT", r.uid, r.pid, 500, r.doc,
                                          r.upd)
               /\ reqs' = [reqs EXCEPT ![s] = IdleReq]
               /\ UNCHANGED <<projects, now>>
       /\ UNCHANGED <<sessions, creator, messages, nextAuto, started, Config,
                      profiles, inits>>

\* PATCH, lines 127-140: the document is read again and answered; reading
\* the fields of a document that is gone throws into the catch
ProjectPatchReread(s) ==
    LET r == reqs[s]
    IN /\ r.op = "PATCH_PROJECT" /\ r.pc = "reread"
       /\ resp' = ProjectResponse("PATCH_PROJECT", r.uid, r.pid,
                                  IF projects[r.pid].exists THEN 200 ELSE 500,
                                  r.doc, r.upd)
       /\ reqs' = [reqs EXCEPT ![s] = IdleReq]
       /\ UNCHANGED <<Storage, started, Config, Elsewhere>>

\* DELETE, lines 154-179: the answer before the delete, 0 when there is none
ProjectDeleteDecision(h, pid) ==
    IF verifyAuthToken(h) = NoUser THEN 401
    ELSE IF ~projects[pid].exists THEN 204
    ELSE IF projects[pid].ownerId # verifyAuthToken(h) THEN 403
    ELSE 0

\* DELETE, lines 149-194
ProjectDeleteStart(h, pid) ==
    LET uid == verifyAuthToken(h)
        d == ProjectDeleteDecision(h, pid)
    IN /\ CanAccept
       /\ IF d # 0
          THEN /\ resp' = ProjectResponse("DELETE_PROJECT", uid, pid, d,
                                          projects[pid], NoUpdates)
               /\ UNCHANGED reqs
          ELSE /\ reqs' = [reqs EXCEPT ![FreeSlot] =
                      [IdleReq EXCEPT !.op = "DELETE_PROJECT", !.pc = "delete",
                                      !.uid = uid, !.pid = pid, !.doc = projects[pid]]]
               /\ resp' = NoResp
       /\ UNCHANGED <<Storage, started, Config, Elsewhere>>

\* DELETE, lines 197-201: projectRef.delete() and the answer
ProjectDeleteDoc(s) ==
    LET r == reqs[s]
    IN /\ r.op = "DELETE_PROJECT" /\ r.pc = "delete"
       /\ projects' = [projects EXCEPT ![r.pid] = NoDoc]
       /\ resp' = ProjectResponse("DELETE_PROJECT", r.uid, r.pid, 204, r.doc,
                                  NoUpdates)
       /\ reqs' = [reqs EXCEPT ![s] = IdleReq]
       /\ UNCHANGED <<Storage, started, Config, profiles, inits>>

----------------------------------------------------------------------------
(* GET and PATCH /api/users/me  (users/me/route.ts) *)

Email(u) == IF u = "u1" THEN "u1@example.com" ELSE "u2@example.com"

NoCounters == [def |-> FALSE]
SomeCounters == [def |-> TRUE, month |-> "2024-07", messagesUsed |-> 3,
                 projectsGenerated |-> 1]

JsObject(x) == [t |-> "object", theme |-> x]

\* UserProfile documents of users/{u}; name, usageCounters and settings are
\* optional
ProfileDocs(u) ==
    {[exists |-> TRUE, uid |-> u, email |-> Email(u), name |-> n, planTier |-> pt,
      usageCounters |-> uc, settings |-> JsObject("light"), createdAt |-> 0,
      updatedAt |-> 0] :
        n \in {Nil, Str("Ann")}, pt \in {"Free", "Pro"},
        uc \in {NoCounters, SomeCounters}}

\* request bodies of PATCH: not JSON, the JSON value null, or an object
UserBodies ==
    {[parses |-> FALSE, isNull |-> FALSE, name |-> Nil, settings |-> Nil],
     [parses |-> TRUE, isNull |-> TRUE, name |-> Nil, settings |-> Nil]}
    \cup {[parses |-> TRUE, isNull |-> FALSE, name |-> n, settings |-> st] :
            n \in {Nil, Str("Bob"), JsNumber},
            st \in {Nil, JsNull, JsObject("dark"), Arr(<<>>), Str("dark")}}

\* an answer of a users/me handler: doc is the caller's profile when the
\* request arrived, upd the fields the handler accepts from the body
UserResponse(op, uid, status, upd) ==
    [NoResp EXCEPT !.op = op, !.uid = uid, !.status = status,
                   !.doc = IF uid = NoUser THEN NoDoc ELSE profiles[uid],
                   !.upd = upd]

\* GET, lines 8-49
UserGet(h) ==
    LET uid == verifyAuthToken(h)
    IN /\ CanAccept
       /\ resp' = UserResponse("GET_USER", uid,
                               IF uid = NoUser THEN 401
                               ELSE IF ~profiles[uid].exists THEN 404 ELSE 200,
                               NoUpdates)
       /\ UNCHANGED <<Storage, reqs, started, Config, Elsewhere>>

\* a variant that takes every field of the body that is not undefined
UserUpdatesUnchecked(body) ==
    [NoUpdates EXCEPT !.name = body.name, !.settings = body.settings]

\* PATCH, lines 68-77: a name is kept when it is a string, settings when
\* typeof gives 'object' and it is not null
UserUpdates(body) ==
    [NoUpdates EXCEPT
        !.name = IF body.name.t = "string" THEN body.name ELSE Nil,
        !.settings = IF body.settings.t \in {"object", "array"}
                     THEN body.settings ELSE Nil]

\* PATCH, lines 59-82: the answer before any write, 0 when there is none;
\* request.json() and the destructuring of null throw into the catch
UserPatchDecision(h, body) ==
    IF verifyAuthToken(h) = NoUser THEN 401
    ELSE IF ~body.parses \/ body.isNull THEN 500
    ELSE IF UserUpdates(body) = NoUpdates THEN 400
    ELSE 0

\* PATCH, lines 57-88: up to updateDataWithTimestamp, whose updatedAt is
\* Timestamp.now() evaluated before the handler awaits the update
UserPatchStart(h, body) ==
    LET uid == verifyAuthToken(h)
        d == UserPatchDecision(h, body)
    IN IF d # 0
       THEN /\ CanAccept
            /\ resp' = [UserResponse("PATCH_USER", uid, d, UserUpdates(body))
                          EXCEPT !.threw = /\ uid # NoUser
                                           /\ (~body.parses \/ body.isNull)]
            /\ UNCHANGED <<Storage, reqs, started, Config, Elsewhere>>
       ELSE /\ CanStart
            /\ reqs' = [reqs EXCEPT ![FreeSlot] =
                   [IdleReq EXCEPT !.op = "PATCH_USER", !.pc = "update",
                                   !.uid = uid, !.doc = profiles[uid],
                                   !.upd = UserUpdates(body), !.ts = now]]
            /\ started' = started + 1
            /\ resp' = NoResp
            /\ UNCHANGED <<Storage, Config, Elsewhere>>

\* DocumentReference.update({...updates, updatedAt})
ApplyUserUpdates(doc, upd, t) ==
    [doc EXCEPT !.name = IF upd.name # Nil THEN upd.name ELSE @,
                !.settings = IF upd.settings # Nil THEN upd.settings ELSE @,
                !.updatedAt = t]

\* PATCH, lines 90-91: userRef.update(updateDataWithTimestamp) with the
\* timestamp taken before the call; it rejects when the caller has no
\* profile document
UserPatchUpdate(s) ==
    LET r == reqs[s]
    IN /\ r.op = "PATCH_USER" /\ r.pc = "update"
       /\ IF profiles[r.uid].exists
          THEN /\ profiles' = [profiles EXCEPT
                                 ![r.uid] = ApplyUserUpdates(@, r.upd, r.ts)]
               /\ now' = now + 1
               /\ reqs' = [reqs EXCEPT ![s].pc = "reread"]
               /\ resp' = NoResp
          ELSE /\ resp' = [UserResponse("PATCH_USER", r.uid, 500, r.upd)
                             EXCEPT !.doc = r.doc]
               /\ reqs' = [reqs EXCEPT ![s] = IdleReq]
               /\ UNCHANGED <<profiles, now>>
       /\ UNCHANGED <<sessions, creator, messages, nextAuto, started, Config,
                      projects, inits>>

\* PATCH, lines 93-111: the document is read again and answered
UserPatchReread(s) ==
    LET r == reqs[s]
    IN /\ r.op = "PATCH_USER" /\ r.pc = "reread"
       /\ resp' = [UserResponse("PATCH_USER", r.uid,
                                IF profiles[r.uid].exists THEN 200 ELSE 404, r.upd)
                     EXCEPT !.doc = r.doc]
       /\ reqs' = [reqs EXCEPT ![s] = IdleReq]
       /\ UNCHANGED <<Storage, started, Config, Elsewhere>>

----------------------------------------------------------------------------
(* POST /api/sessions/{sessionId}/generate  (the second POST of            *)
(* messages/route.ts, lines 259-330)                                       *)

\* request bodies of generate: none (not JSON), or a JSON value
GenerateBodies == {[parses |-> FALSE], [parses |-> TRUE]}

\* the usage-limit placeholder of line 291
canGenerate == TRUE

\* lines 264-324: the status answered
GenerateDecision(h, sid, body) ==
    IF verifyAuthToken(h) = NoUser THEN 401
    ELSE IF ~body.parses THEN 500
    ELSE IF ~sessions[sid].exists \/ sessions[sid].ownerId # verifyAuthToken(h)
         THEN 403
    ELSE IF ~canGenerate THEN 429
    ELSE 202

\* lines 259-330: the handler reads the session and writes nothing; the
\* answer carries the status field of the payload in text
Generate(h, sid, body) ==
    LET d == GenerateDecision(h, sid, body)
    IN /\ CanAccept
       /\ resp' = [Response("GENERATE", verifyAuthToken(h), sid, d,
                            IF d = 202 THEN "generating" ELSE "", NoActions, <<>>,
                            G0)
                     EXCEPT !.doc = sessions[sid]]
       /\ UNCHANGED <<Storage, reqs, started, Config, Elsewhere>>

----------------------------------------------------------------------------
(* extractResponseText on its own: the shapes of AdkResponse (lib/types/   *)
(* api.ts) it is applied to                                                *)

FinalResponse(x) == [t |-> "object", text |-> x]

\* values of the fields of an AdkResponse; each field has a text of its own
MessageShapes ==
    {Nil, Str("Message text"),
     MessageObj(ContentObj(Arr(<<Part(Str("Parts text"))>>), Arr(<<"Next">>)), Nil),
     MessageObj(ContentObj(Arr(<<>>), Nil), Str("Message object text")),
     MessageObj(Nil, Nil)}
EventsShapes ==
    {Nil, Arr(<<>>),
     Arr(<<EventObj("TOOL_CALL", Arr(<<Part(Str("Tool text"))>>)),
           EventObj("FINAL_RESPONSE", Arr(<<Part(Str("Event text"))>>))>>),
     Arr(<<EventObj("FINAL_RESPONSE", Arr(<<>>))>>)}
TextShapes ==
    {Nil, Str(""), Str(PlainText), Str(JsonText), Str(JsonNoContentText),
     Str(JsonContentOnlyText), Str(JsonBadText)}

ExtractInputs ==
    {NullResult}
    \cup {AdkResult(m, e, f, rs, t, c, na) :
            m \in MessageShapes, e \in EventsShapes,
            f \in {Nil, FinalResponse(Str("Final text"))},
            rs \in {Nil, Str("Response text")},
            t \in TextShapes,
            c \in {Nil, Str("Content text")},
            na \in {Nil, Arr(<<"Top">>)}}

\* line 199: the caller holds a result and applies extractResponseText
ExtractCall(s) ==
    LET r == reqs[s]
        out == extractResponseText(r.doc)
    IN /\ r.op = "EXTRACT" /\ r.pc = "extract"
       /\ resp' = [Response("EXTRACT", NoUser, ClientId, 0, out.text,
                            out.next_actions, <<>>, G0) EXCEPT !.doc = r.doc]
       /\ reqs' = [reqs EXCEPT ![s] = IdleReq]
       /\ UNCHANGED <<Storage, started, Config, Elsewhere>>

----------------------------------------------------------------------------
(* initializeUserProfile  (lib/firebase/firestore.ts, run in the browser   *)
(* with the client SDK; started twice by one sign-in, AuthContext.tsx      *)
(* lines 42 and 53)                                                        *)

\* user.displayName: "" stands for null
DisplayNames == {"", "Ann G"}

\* settings: {}
EmptySettings == JsObject(Absent)

\* lines 36-50: newUserProfile
NewUserProfile(u, dn, t) ==
    [exists |-> TRUE, uid |-> u, email |-> Email(u), name |-> Str(dn),
     planTier |-> "Free", usageCounters |-> NoCounters, settings |-> EmptySettings,
     createdAt |-> t, updatedAt |-> t]

\* line 32: getDoc(userRef)
InitGetDoc(i) ==
    /\ inits[i].pc = "getDoc"
    /\ inits' = [inits EXCEPT ![i].pc = "write", ![i].snap = profiles[inits[i].uid]]
    /\ UNCHANGED <<Storage, reqs, resp, started, Config, projects, profiles>>

\* lines 34-72: the write that follows the read, and the end of the run.
\* setDoc replaces the document, and throws for a field that is undefined
\* (name, when displayName is null); updateDoc rejects when the document is
\* gone; the catch of line 75 logs either.  The run's end is observed in
\* resp, with the document the store held before the write
InitWrite(i) ==
    LET r == inits[i]
        cur == profiles[r.uid]
        fills == ~Truthy(r.snap.name) /\ r.displayName # ""
        written ==
            IF ~r.snap.exists
            THEN IF r.displayName = "" THEN cur
                 ELSE NewUserProfile(r.uid, r.displayName, now)
            ELSE IF ~cur.exists THEN cur
            ELSE [cur EXCEPT !.name = IF fills THEN Str(r.displayName) ELSE @,
                             !.updatedAt = now]
    IN /\ r.pc = "write"
       /\ profiles' = [profiles EXCEPT ![r.uid] = written]
       /\ now' = IF written = cur THEN now ELSE now + 1
       /\ inits' = [inits EXCEPT ![i] = IdleRun]
       /\ resp' = [NoResp EXCEPT !.op = "INIT_PROFILE", !.uid = r.uid,
                                 !.text = r.displayName, !.doc = cur]
       /\ UNCHANGED <<sessions, creator, messages, nextAuto, reqs, started, Config,
                      projects>>

----------------------------------------------------------------------------
(* The system *)

\* the environment of a cloud deployment
CloudEnv == [needAuth |-> TRUE, debugMode |-> FALSE]

InitWith(e, w) ==
    /\ sessions = [sid \in SessionIds |-> NoDoc]
    /\ creator = [sid \in SessionIds |-> Absent]
    /\ messages = {}
    /\ now = 1
    /\ nextAuto = 0
    /\ reqs = [s \in Slots |-> IdleReq]
    /\ resp = NoResp
    /\ started = 0
    /\ env = e
    /\ workers = w
    /\ projects = [p \in ProjectIds |-> NoDoc]
    /\ profiles = [u \in Users |-> NoDoc]
    /\ inits = NoRuns

\* the answer of the last step has gone out to its client
Deliver ==
    /\ resp # NoResp
    /\ resp' = NoResp
    /\ UNCHANGED <<Storage, reqs, started, Config, Elsewhere>>

\* one step of POST /api/sessions/{sessionId}/messages
MessagesStep ==
    \/ \E h \in Headers, sid \in KnownIds, b \in MessageBodies : MessagesStart(h, sid, b)
    \/ \E s \in Slots : MessagesEnsureSet(s)
    \/ \E s \in Slots : MessagesAddUser(s)
    \/ \E s \in Slots : MessagesUpdateUser(s)
    \/ \E s \in Slots, o \in ProxyOutcomes : MessagesAgentDone(s, o)
    \/ \E s \in Slots : MessagesAddAssistant(s)
    \/ \E s \in Slots : MessagesUpdateAssistant(s)

\* one step of DELETE /api/sessions/{sessionId}
DeleteStep ==
    \/ \E h \in Headers, sid \in KnownIds : DeleteStart(h, sid)
    \/ \E s \in Slots : DeleteQuery(s)
    \/ \E s \in Slots : DeleteBatch(s)
    \/ \E s \in Slots : DeleteDoc(s)

\* one step of GET or DELETE /api/sessions/{sessionId}, or of GET /api/sessions
SessionsStep ==
    \/ \E h \in Headers, sid \in KnownIds : GetSessionStart(h, sid)
    \/ \E s \in Slots : GetSessionMessages(s)
    \/ DeleteStep
    \/ \E h \in Headers : ListSessions(h)

\* one step of POST /api/sessions
CreateStep ==
    \/ \E h \in Headers, b \in SessionBodies : SessionsCreate(h, b)
    \/ \E s \in Slots : SessionsAddUser(s)
    \/ \E s \in Slots : SessionsUpdateUser(s)
    \/ \E s \in Slots, o \in RunOutcomes : SessionsAgentDone(s, o)
    \/ \E s \in Slots : SessionsAddAssistant(s)
    \/ \E s \in Slots : SessionsUpdateAssistant(s)

\* one step of POST /api/adk
AdkStep ==
    \/ \E h \in Headers, b \in AdkBodies, ok \in BOOLEAN : AdkStart(h, b, ok)
    \/ \E s \in Slots, a \in SessionAnswers : AdkSessionDone(s, a)
    \/ \E s \in Slots, a \in RunAnswers : AdkRunDone(s, a)

(* The handlers of the sessions collection; the steps of two requests      *)
(* interleave.  The proxy's answer to the messages handler is any of        *)
(* ProxyOutcomes.                                                           *)
Init == InitWith(CloudEnv, 2)

Next ==
    \/ resp = NoResp /\ MessagesStep
    \/ resp = NoResp /\ SessionsStep
    \/ resp = NoResp /\ CreateStep
    \/ Deliver

Spec == Init /\ [][Next]_vars

(* The proxy alone, in every environment *)
InitAdk == \E e \in Envs : InitWith(e, 2)

NextAdk ==
    \/ resp = NoResp /\ AdkStep
    \/ Deliver

SpecAdk == InitAdk /\ [][NextAdk]_vars

(* The two handlers that call out: the messages handler and the proxy *)
NextCalls ==
    \/ resp = NoResp /\ MessagesStep
    \/ resp = NoResp /\ AdkStep
    \/ Deliver

SpecCalls == InitAdk /\ [][NextCalls]_vars

(* The three handlers that call the agent, in the cloud deployment, with    *)
(* the progress the server guarantees: an answer ready to go out goes out,  *)
(* a store operation ends,                                                  *)
(* and the messages handler's fetch of the proxy ends, by an answer or by   *)
(* its AbortSignal.timeout.  The fetches of POST /api/sessions and of       *)
(* POST /api/adk carry no signal: they end only if the agent answers or     *)
(* the connection fails, and nothing makes that happen.                     *)
NextAgents ==
    \/ resp = NoResp /\ MessagesStep
    \/ resp = NoResp /\ CreateStep
    \/ resp = NoResp /\ AdkStep
    \/ Deliver

\* the steps of the request in slot s that end without the agent's help
BoundedStep(s) ==
    \/ MessagesEnsureSet(s)
    \/ MessagesAddUser(s)
    \/ MessagesUpdateUser(s)
    \/ \E o \in ProxyOutcomes : MessagesAgentDone(s, o)
    \/ MessagesAddAssistant(s)
    \/ MessagesUpdateAssistant(s)
    \/ SessionsAddUser(s)
    \/ SessionsUpdateUser(s)
    \/ SessionsAddAssistant(s)
    \/ SessionsUpdateAssistant(s)

SpecAgents ==
    /\ Init
    /\ [][NextAgents]_vars
    /\ WF_vars(Deliver)
    /\ \A s \in Slots : WF_vars(resp = NoResp /\ BoundedStep(s))

(* DELETE and the list over a store that holds one long session: u1        *)
(* created session 1 and the messages handler stored n messages in it, one  *)
(* every second tick of the clock, n around the limit of the DELETE query.  *)
(* One request is handled at a time: C11 supposes that no other request     *)
(* runs next to the DELETE.                                                 *)
BulkMessage(i) ==
    [id |-> 2 * i, sid |-> 1,
     sender |-> IF i % 2 = 1 THEN "user" ELSE "assistant",
     text |-> IF i % 2 = 1 THEN "Hello" ELSE FallbackText,
     createdAt |-> 2 * i, next_actions |-> NoActions]

InitBulk ==
    \E n \in {DeleteBatchLimit - 1, DeleteBatchLimit, DeleteBatchLimit + 1} :
        /\ sessions = [sid \in SessionIds |->
                         IF sid = 1
                         THEN [exists |-> TRUE, sessionId |-> Absent,
                               userId |-> Absent, ownerId |-> "u1",
                               title |-> "My chat", createdAt |-> 1,
                               updatedAt |-> 2 * n + 1, status |-> "active"]
                         ELSE NoDoc]
        /\ creator = [sid \in SessionIds |-> IF sid = 1 THEN "u1" ELSE Absent]
        /\ messages = {BulkMessage(i) : i \in 1 .. n}
        /\ now = 2 * n + 2
        /\ nextAuto = 1
        /\ reqs = [s \in Slots |-> IdleReq]
        /\ resp = NoResp
        /\ started = MaxRequests - 1
        /\ env = CloudEnv
        /\ workers = 1
        /\ projects = [p \in ProjectIds |-> NoDoc]
        /\ profiles = [u \in Users |-> NoDoc]
        /\ inits = NoRuns

NextBulk ==
    \/ resp = NoResp /\ DeleteStep
    \/ resp = NoResp /\ \E h \in Headers : ListSessions(h)
    \/ Deliver

SpecBulk == InitBulk /\ [][NextBulk]_vars

(* The projects handlers, up to two requests at a time, over the project    *)
(* documents other parts of the system may have written: p1 is any          *)
(* document or none, p2 has none.                                           *)
ProjectsStep ==
    \/ \E h \in Headers, pid \in ProjectIds : ProjectGet(h, pid)
    \/ \E h \in Headers, pid \in ProjectIds : ProjectDownload(h, pid)
    \/ \E h \in Headers, pid \in ProjectIds, b \in ProjectBodies :
          ProjectPatchStart(h, pid, b)
    \/ \E s \in Slots : ProjectPatchUpdate(s)
    \/ \E s \in Slots : ProjectPatchReread(s)
    \/ \E h \in Headers, pid \in ProjectIds : ProjectDeleteStart(h, pid)
    \/ \E s \in Slots : ProjectDeleteDoc(s)

InitProjects ==
    /\ sessions = [sid \in SessionIds |-> NoDoc]
    /\ creator = [sid \in SessionIds |-> Absent]
    /\ messages = {}
    /\ now = 1
    /\ nextAuto = 0
    /\ reqs = [s \in Slots |-> IdleReq]
    /\ resp = NoResp
    /\ started = 0
    /\ env = CloudEnv
    /\ workers = 2
    /\ projects \in [ProjectIds -> ProjectDocs \cup {NoDoc}]
    /\ projects["p2"] = NoDoc
    /\ profiles = [u \in Users |-> NoDoc]
    /\ inits = NoRuns

NextProjects ==
    \/ resp = NoResp /\ ProjectsStep
    \/ Deliver

SpecProjects == InitProjects /\ [][NextProjects]_vars

UsersStep ==
    \/ \E h \in Headers : UserGet(h)
    \/ \E h \in Headers, b \in UserBodies : UserPatchStart(h, b)
    \/ \E s \in Slots : UserPatchUpdate(s)
    \/ \E s \in Slots : UserPatchReread(s)

\* requests to users/me, up to two at a time, on a store where u1 has a
\* profile or none, with or without a name, on the Free plan without
\* counters or on the Pro plan with them, and u2 a Pro profile with a name
\* and counters, or none
InitUsers ==
    /\ sessions = [sid \in SessionIds |-> NoDoc]
    /\ creator = [sid \in SessionIds |-> Absent]
    /\ messages = {}
    /\ now = 1
    /\ nextAuto = 0
    /\ reqs = [s \in Slots |-> IdleReq]
    /\ resp = NoResp
    /\ started = 0
    /\ env = CloudEnv
    /\ workers = 2
    /\ projects = [p \in ProjectIds |-> NoDoc]
    /\ profiles \in [Users -> UNION {ProfileDocs(u) : u \in Users} \cup {NoDoc}]
    /\ \A u \in Users : profiles[u].exists => profiles[u] \in ProfileDocs(u)
    /\ profiles["u1"].exists =>
          (profiles["u1"].planTier = "Pro"
              <=> profiles["u1"].usageCounters = SomeCounters)
    /\ profiles["u2"].exists =>
          /\ profiles["u2"].name = Str("Ann")
          /\ profiles["u2"].planTier = "Pro"
          /\ profiles["u2"].usageCounters = SomeCounters
    /\ inits = NoRuns

NextUsers ==
    \/ resp = NoResp /\ UsersStep
    \/ Deliver

SpecUsers == InitUsers /\ [][NextUsers]_vars

\* a session document as POST /api/sessions writes it (ownerId), or as the
\* first message posted to an unknown id writes it (userId)
StoredSessions ==
    {[exists |-> TRUE, sessionId |-> Absent, userId |-> Absent, ownerId |-> o,
      title |-> "My chat", createdAt |-> 0, updatedAt |-> 0,
      status |-> "active"] : o \in Users}
    \cup {[exists |-> TRUE, sessionId |-> 1, userId |-> o, ownerId |-> Absent,
           title |-> Absent, createdAt |-> 0, updatedAt |-> 0,
           status |-> "active"] : o \in Users}

\* generate requests on a store that holds up to one session and users in
\* every usage state
InitGenerate ==
    /\ sessions \in [SessionIds -> StoredSessions \cup {NoDoc}]
    /\ \A sid \in SessionIds : sessions[sid].exists => sid = 1
    /\ creator = [sid \in SessionIds |->
                    IF ~sessions[sid].exists THEN Absent
                    ELSE IF sessions[sid].ownerId # Absent
                         THEN sessions[sid].ownerId ELSE sessions[sid].userId]
    /\ messages = {}
    /\ now = 1
    /\ nextAuto = 1
    /\ reqs = [s \in Slots |-> IdleReq]
    /\ resp = NoResp
    /\ started = 0
    /\ env = CloudEnv
    /\ workers = 2
    /\ projects = [p \in ProjectIds |-> NoDoc]
    /\ profiles \in [Users -> UNION {ProfileDocs(u) : u \in Users} \cup {NoDoc}]
    /\ \A u \in Users : profiles[u].exists => profiles[u] \in ProfileDocs(u)
    /\ inits = NoRuns

NextGenerate ==
    \/ \E h \in Headers, sid \in KnownIds, b \in GenerateBodies :
          resp = NoResp /\ Generate(h, sid, b)
    \/ Deliver

SpecGenerate == InitGenerate /\ [][NextGenerate]_vars

\* two workers: the steps of a POST of a message and of a DELETE interleave.
\* The store holds one session, created by POST /api/sessions for u1; one
\* more POST is accepted
InitRace ==
    /\ sessions = [sid \in SessionIds |->
                     IF sid = 1
                     THEN [exists |-> TRUE, sessionId |-> Absent,
                           userId |-> Absent, ownerId |-> "u1",
                           title |-> "My chat", createdAt |-> 1, updatedAt |-> 1,
                           status |-> "active"]
                     ELSE NoDoc]
    /\ creator = [sid \in SessionIds |-> IF sid = 1 THEN "u1" ELSE Absent]
    /\ messages = {}
    /\ now = 2
    /\ nextAuto = 1
    /\ reqs = [s \in Slots |-> IdleReq]
    /\ resp = NoResp
    /\ started = 0
    /\ env = CloudEnv
    /\ workers = 2
    /\ projects = [p \in ProjectIds |-> NoDoc]
    /\ profiles = [u \in Users |-> NoDoc]
    /\ inits = NoRuns

NextRace ==
    \/ resp = NoResp /\ MessagesStep
    \/ resp = NoResp /\ DeleteStep
    \/ Deliver

SpecRace == InitRace /\ [][NextRace]_vars

\* u1 has signed in or signed up: both runs of initializeUserProfile are
\* about to read, each with the displayName its User object carried, and
\* requests to users/me arrive meanwhile
InitLogin ==
    /\ sessions = [sid \in SessionIds |-> NoDoc]
    /\ creator = [sid \in SessionIds |-> Absent]
    /\ messages = {}
    /\ now = 1
    /\ nextAuto = 0
    /\ reqs = [s \in Slots |-> IdleReq]
    /\ resp = NoResp
    /\ started = MaxRequests - 1
    /\ env = CloudEnv
    /\ workers = 2
    /\ projects = [p \in ProjectIds |-> NoDoc]
    /\ \E d \in ProfileDocs("u1") \cup {NoDoc} :
          profiles = [u \in Users |-> IF u = "u1" THEN d ELSE NoDoc]
    /\ \E dn \in [Runs -> DisplayNames] :
          inits = [i \in Runs |->
                     [pc |-> "getDoc", uid |-> "u1", displayName |-> dn[i],
                      snap |-> NoDoc]]

NextLogin ==
    \/ \E i \in Runs : InitGetDoc(i)
    \/ \E i \in Runs : resp = NoResp /\ InitWrite(i)
    \/ resp = NoResp /\ UsersStep
    \/ Deliver

SpecLogin == InitLogin /\ [][NextLogin]_vars

\* one result of the agent, of any shape, waits to be read
InitExtract ==
    /\ sessions = [sid \in SessionIds |-> NoDoc]
    /\ creator = [sid \in SessionIds |-> Absent]
    /\ messages = {}
    /\ now = 1
    /\ nextAuto = 0
    /\ \E r \in ExtractInputs :
          reqs = [s \in Slots |->
                    IF s = CHOOSE x \in Slots : TRUE
                    THEN [IdleReq EXCEPT !.op = "EXTRACT", !.pc = "extract",
                                         !.doc = r]
                    ELSE IdleReq]
    /\ resp = NoResp
    /\ started = MaxRequests
    /\ env = CloudEnv
    /\ workers = 2
    /\ projects = [p \in ProjectIds |-> NoDoc]
    /\ profiles = [u \in Users |-> NoDoc]
    /\ inits = NoRuns

NextExtract ==
    \/ \E s \in Slots : resp = NoResp /\ ExtractCall(s)
    \/ Deliver

SpecExtract == InitExtract /\ [][NextExtract]_vars

----------------------------------------------------------------------------
(* Properties *)

\* a POST .../messages request in slot s, or the one just answered, whose
\* session existed with another user's ownerId when the handler looked it up
ForeignPost(r) ==
    /\ r.op = "POST_MSG"
    /\ r.g.preExists
    /\ r.g.preOwner \in Users
    /\ r.g.preOwner # r.uid

(* C1: POST /api/sessions/{sessionId}/messages checks ownership: when the    *)
(* session exists and its owner is another user than the authenticated      *)
(* caller, the answer is 403, the handler goes no further, no message is    *)
(* added to the session and the session document is left as it was.         *)
C1_OwnershipCheck ==
    /\ \A s \in Slots : ~ForeignPost(reqs[s])
    /\ ForeignPost(resp) => resp.status = 403 /\ resp.g.appended = <<>>

(* C2: POST /api/adk authenticates the caller: a request without a valid    *)
(* Bearer token is answered 401 and no request, session creation or run,    *)
(* goes to the ADK service for it.                                          *)
C2_ProxyAuthenticates ==
    /\ \A s \in Slots : reqs[s].op = "POST_ADK" => reqs[s].uid # NoUser
    /\ resp.op = "POST_ADK" /\ resp.uid = NoUser =>
          resp.status = 401 /\ resp.g.sessCalls = 0 /\ resp.g.runCalls = 0

(* C3: every session document of the store has an ownerId, and it is the    *)
(* uid of the user whose request created the document.                      *)
C3_EverySessionOwned ==
    \A sid \in SessionIds :
        SessionExists(sid) =>
            sessions[sid].ownerId \in Users /\ sessions[sid].ownerId = creator[sid]

(* C4: GET /api/sessions/{sessionId} answers 401 when the Bearer token is   *)
(* missing or invalid, else 404 when the session document does not exist,   *)
(* else 403 when its ownerId is not the caller's uid, else 200 with the     *)
(* session document it read and all the messages of the session in          *)
(* ascending createdAt order; only the owner's request goes on to read the  *)
(* messages, and no step of the handler changes the store, whatever other   *)
(* requests do meanwhile.                                                   *)
C4_GetSessionAnswer ==
    /\ \A s \in Slots :
          reqs[s].op = "GET_SESSION" =>
              /\ reqs[s].uid # NoUser
              /\ reqs[s].doc.exists
              /\ reqs[s].doc.ownerId = reqs[s].uid
    /\ resp.op = "GET_SESSION" =>
        /\ resp.status \in {401, 404, 403, 200}
        /\ resp.status = 401 <=> resp.uid = NoUser
        /\ resp.status # 200 =>
              /\ resp.status = 404 <=> resp.uid # NoUser /\ ~SessionExists(resp.sid)
              /\ resp.status = 403 <=>
                    /\ resp.uid # NoUser
                    /\ SessionExists(resp.sid)
                    /\ sessions[resp.sid].ownerId # resp.uid
        /\ resp.status = 200 =>
              /\ resp.doc.exists
              /\ resp.doc.ownerId = resp.uid
              /\ {resp.items[i] : i \in 1 .. Len(resp.items)} =
                    {MessageResponse(m) : m \in MessagesOf(resp.sid)}
              /\ Len(resp.items) = Cardinality(MessagesOf(resp.sid))
              /\ \A i \in 1 .. Len(resp.items) : resp.items[i].next_actions.def
              /\ \A i, j \in 1 .. Len(resp.items) :
                    i < j => resp.items[i].createdAt <= resp.items[j].createdAt

\* the steps of a GET: the answer sent at once, the read of the session
\* document by a request that goes on, and the query of the messages
C4_GetSessionStep ==
    /\ resp = NoResp /\ resp'.op = "GET_SESSION" => UNCHANGED Storage
    /\ \A s \in Slots :
          /\ reqs[s].op = "idle" /\ reqs'[s].op = "GET_SESSION" =>
                /\ UNCHANGED Storage
                /\ reqs'[s].doc = sessions[reqs'[s].sid]
          /\ reqs[s].op = "GET_SESSION" /\ reqs'[s] # reqs[s] =>
                /\ UNCHANGED Storage
                /\ resp'.op = "GET_SESSION" /\ resp'.status = 200
                /\ resp'.uid = reqs[s].uid /\ resp'.sid = reqs[s].sid
                /\ resp'.doc = reqs[s].doc

C4_GetSession == []C4_GetSessionAnswer /\ [][C4_GetSessionStep]_vars

\* the owner reads a session that holds a user and an assistant message
C4_Witness ==
    /\ resp.op = "GET_SESSION"
    /\ resp.status = 200
    /\ Len(resp.items) >= 2
    /\ resp.items[1].sender = "user"
    /\ resp.items[1].next_actions = Actions(<<>>)
    /\ resp.doc.ownerId = resp.uid

(* C5: GET /api/sessions answers 401 without a valid token, else 200 with   *)
(* exactly the stored sessions whose ownerId is the caller's uid, each      *)
(* once, ordered by updatedAt descending; a session owned by another user   *)
(* is never in the list.                                                    *)
C5_ListOwnedSessions ==
    resp.op = "LIST_SESSIONS" =>
        /\ resp.status = 401 <=> resp.uid = NoUser
        /\ resp.status = 200 <=> resp.uid \in Users
        /\ resp.status = 200 =>
              /\ {resp.items[i] : i \in 1 .. Len(resp.items)} =
                    {sid \in SessionIds :
                        SessionExists(sid) /\ sessions[sid].ownerId = resp.uid}
              /\ \A i, j \in 1 .. Len(resp.items) :
                    i < j =>
                      /\ resp.items[i] # resp.items[j]
                      /\ sessions[resp.items[i]].updatedAt >=
                            sessions[resp.items[j]].updatedAt

\* the caller's session is listed while another user's session is stored
C5_Witness ==
    /\ resp.op = "LIST_SESSIONS"
    /\ resp.status = 200
    /\ Len(resp.items) = 1
    /\ \E sid \in SessionIds :
          SessionExists(sid) /\ sessions[sid].ownerId \in Users \ {resp.uid}

(* C6: in POST /api/sessions/{sessionId}/messages, when the call to the     *)
(* proxy fails (network error, timeout, non-2xx answer, unreadable body),   *)
(* the handler keeps the fixed fallback text with no next_actions and       *)
(* stores it as the assistant message; it answers 200 with that text and    *)
(* no next_actions, unless the session document has been deleted by the     *)
(* time updatedAt is refreshed: then the update is rejected and the answer  *)
(* is 500, as it is after a call that succeeded.                            *)
C6_FallbackAnswer ==
    /\ \A s \in Slots :
          reqs[s].op = "POST_MSG" /\ reqs[s].g.failed =>
              /\ reqs[s].aText = FallbackText /\ reqs[s].aNa = NoActions
              /\ reqs[s].pc \in {"addAsst", "updAsst"}
    /\ resp.op = "POST_MSG" /\ resp.g.failed =>
          /\ resp.status \in {200, 500}
          /\ resp.status = 200 => resp.text = FallbackText /\ resp.na = NoActions
          /\ resp.status = 500 => ~SessionExists(resp.sid)
          /\ Len(resp.g.appended) = 2
          /\ resp.g.appended[2].sender = "assistant"
          /\ resp.g.appended[2].text = FallbackText
          /\ resp.g.appended[2].next_actions = NoActions

\* the assistant message of a request is in the store once it is recorded,
\* and a request whose last update finds the session is answered 200
C6_FallbackStep ==
    \A s \in Slots :
        reqs[s].op = "POST_MSG" /\ reqs'[s] # reqs[s] =>
            /\ reqs[s].pc = "addAsst" =>
                  /\ Len(reqs'[s].g.appended) = 2
                  /\ reqs'[s].g.appended[2] \in messages'
                  /\ reqs'[s].g.appended[2].text = reqs[s].aText
                  /\ reqs'[s].g.appended[2].sid = reqs[s].sid
            /\ reqs[s].pc = "updAsst" =>
                  resp'.status = IF SessionExists(reqs[s].sid) THEN 200 ELSE 500

C6_AgentFailureFallback == []C6_FallbackAnswer /\ [][C6_FallbackStep]_vars

\* every request whose call to the proxy failed is answered 200
C6_FailureAnswered200 ==
    resp.op = "POST_MSG" /\ resp.g.failed => resp.status = 200

\* a request whose call to the proxy failed has been answered
C6_Witness ==
    /\ resp.op = "POST_MSG"
    /\ resp.g.failed
    /\ resp.g.calls = 1
    /\ resp.status = 200
    /\ resp.text = FallbackText

\* the session was deleted while the request waited for the proxy, which
\* failed: the fallback text is stored and the answer is 500
C6_WitnessDeleted ==
    /\ resp.op = "POST_MSG"
    /\ resp.g.failed
    /\ resp.status = 500
    /\ resp.g.appended[2] \in messages

(* C7: a POST /api/sessions/{sessionId}/messages request answered 200 has   *)
(* added exactly two messages to the session, the user's message with the   *)
(* request text and then an assistant message with the text of the answer;  *)
(* the proxy is called only once the user's message is stored, and the      *)
(* session's updatedAt is set after each of the two messages, whatever      *)
(* other requests do meanwhile.                                             *)
C7_TwoMessagesAnswer ==
    /\ \A s \in Slots :
          reqs[s].op = "POST_MSG" /\ reqs[s].g.calls >= 1 =>
              /\ Len(reqs[s].g.appended) >= 1
              /\ reqs[s].g.appended[1].sender = "user"
              /\ reqs[s].g.appended[1].sid = reqs[s].sid
              /\ reqs[s].g.appended[1].text = reqs[s].text
              /\ Len(reqs[s].g.updates) >= 1
              /\ reqs[s].g.appended[1].createdAt < reqs[s].g.updates[1]
    /\ resp.op = "POST_MSG" /\ resp.status = 200 =>
          LET a == resp.g.appended
              u == resp.g.updates
          IN /\ Len(a) = 2 /\ Len(u) = 2
             /\ resp.g.calls = 1
             /\ a[1].sender = "user" /\ a[2].sender = "assistant"
             /\ a[1].sid = resp.sid /\ a[2].sid = resp.sid
             /\ a[2].text = resp.text
             /\ a[1].createdAt < u[1]
             /\ u[1] < a[2].createdAt
             /\ a[2].createdAt < u[2]
             /\ SessionExists(resp.sid)
             /\ sessions[resp.sid].updatedAt = u[2]

\* a step of a messages request adds at most one message, the one it
\* records, and an update it records has set the session's updatedAt
C7_TwoMessagesStep ==
    \A s \in Slots :
        reqs[s].op = "POST_MSG" /\ reqs'[s] # reqs[s] =>
            /\ \/ messages' = messages
               \/ /\ Len(reqs'[s].g.appended) = Len(reqs[s].g.appended) + 1
                  /\ messages' = messages \cup
                        {reqs'[s].g.appended[Len(reqs'[s].g.appended)]}
                  /\ Cardinality(messages') = Cardinality(messages) + 1
            /\ reqs'[s].op = "POST_MSG" /\ reqs'[s].g.updates # reqs[s].g.updates =>
                  /\ Len(reqs'[s].g.updates) = Len(reqs[s].g.updates) + 1
                  /\ Len(reqs'[s].g.updates) = Len(reqs[s].g.appended)
                  /\ sessions'[reqs[s].sid].exists
                  /\ sessions'[reqs[s].sid].updatedAt =
                        reqs'[s].g.updates[Len(reqs'[s].g.updates)]
            /\ reqs'[s].op = "POST_MSG" /\ reqs'[s].g.calls # reqs[s].g.calls =>
                  reqs[s].pc = "updUser" /\ Len(reqs[s].g.appended) = 1

C7_TwoMessages == []C7_TwoMessagesAnswer /\ [][C7_TwoMessagesStep]_vars

\* an answer 200 with the agent's own text, after two stored messages
C7_Witness ==
    /\ resp.op = "POST_MSG"
    /\ resp.status = 200
    /\ ~resp.g.failed
    /\ resp.text = ParsedText
    /\ Cardinality(MessagesOf(resp.sid)) = 2

\* the request in slot s waits for the agent, directly or through the proxy
AwaitsAgent(s) == reqs[s].pc \in {"agent", "adkSession", "adkRun"}

(* C8: every call to the agent is bounded by a timeout: a request of any of *)
(* the three handlers that waits for the agent is eventually answered,      *)
(* whether or not the agent answers.                                        *)
C8_AgentCallsBounded ==
    \A s \in Slots : AwaitsAgent(s) ~> (reqs[s].op = "idle")

(* C8, the part that holds: a messages request that waits for the proxy is  *)
(* eventually answered.                                                     *)
C8_MessagesCallBounded ==
    \A s \in Slots :
        (reqs[s].op = "POST_MSG" /\ reqs[s].pc = "agent") ~> (reqs[s].op = "idle")

(* C9: no call is retried: one POST /api/sessions/{sessionId}/messages      *)
(* request sends at most one request to the proxy, and one POST /api/adk    *)
(* request sends at most one session-creation request and at most one run   *)
(* request to the ADK service, whatever the calls end with; after a failed  *)
(* call the handler goes on and does not wait for the agent again.          *)
C9_NoRetry ==
    /\ \A s \in Slots :
          /\ reqs[s].g.calls <= 1
          /\ reqs[s].g.sessCalls <= 1
          /\ reqs[s].g.runCalls <= 1
          /\ reqs[s].g.failed => reqs[s].pc # "agent"
          /\ reqs[s].pc = "agent" => reqs[s].g.calls = 1
          /\ reqs[s].pc = "adkSession" =>
                reqs[s].g.sessCalls = 1 /\ reqs[s].g.runCalls = 0
          /\ reqs[s].pc = "adkRun" =>
                reqs[s].g.sessCalls = 1 /\ reqs[s].g.runCalls = 1
    /\ resp.g.calls <= 1
    /\ resp.g.sessCalls <= 1
    /\ resp.g.runCalls <= 1
    /\ resp.op = "POST_ADK" /\ ~resp.g.sessOk => resp.g.runCalls = 0

\* the run request of a proxy request failed and the request was answered 500
C9_Witness ==
    /\ resp.op = "POST_ADK"
    /\ resp.status = 500
    /\ resp.g.sessOk
    /\ resp.g.sessCalls = 1
    /\ resp.g.runCalls = 1

(* C10: DELETE /api/sessions/{sessionId} is owner-only and idempotent: a    *)
(* caller whose uid is not the session's ownerId is answered 403 and the    *)
(* session and its messages stay as they are; for a session that does not   *)
(* exist the answer is 204 and nothing changes; once the owner is answered  *)
(* 204 the session document no longer exists, so that the same request      *)
(* sent again is answered 204 too.  A session document or a message        *)
(* disappears only by a step of a DELETE whose caller owned the document    *)
(* it read.                                                                 *)
C10_DeleteAnswer ==
    /\ \A s \in Slots :
          reqs[s].op = "DELETE" =>
              reqs[s].uid # NoUser /\ reqs[s].g.preOwner = reqs[s].uid
    /\ resp.op = "DELETE" =>
        /\ resp.status \in {401, 403, 204}
        /\ resp.status = 401 <=> resp.uid = NoUser
        /\ resp.status = 403 <=>
              /\ resp.uid # NoUser
              /\ SessionExists(resp.sid)
              /\ sessions[resp.sid].ownerId # resp.uid
        /\ resp.status = 204 =>
              /\ ~SessionExists(resp.sid)
              /\ resp.g.preExists => resp.g.preOwner = resp.uid

C10_DeleteStep ==
    /\ resp = NoResp /\ resp'.op = "DELETE" /\ ~resp'.g.preExists =>
          UNCHANGED Storage
    /\ \A s \in Slots :
          reqs[s].op = "idle" /\ reqs'[s].op = "DELETE" =>
              /\ UNCHANGED Storage
              /\ SessionExists(reqs'[s].sid)
              /\ sessions[reqs'[s].sid].ownerId = reqs'[s].uid
    /\ \A sid \in SessionIds :
          SessionExists(sid) /\ ~sessions'[sid].exists =>
              /\ resp'.op = "DELETE" /\ resp'.status = 204 /\ resp'.sid = sid
              /\ \E s \in Slots :
                    /\ reqs[s].op = "DELETE" /\ reqs[s].sid = sid
                    /\ reqs'[s] # reqs[s]
                    /\ reqs[s].g.preOwner = reqs[s].uid
                    /\ resp'.uid = reqs[s].uid
    /\ \A m \in messages \ messages' :
          \E s \in Slots :
              /\ reqs[s].op = "DELETE" /\ reqs[s].sid = m.sid
              /\ reqs'[s] # reqs[s]
              /\ reqs[s].g.preOwner = reqs[s].uid

C10_Delete == []C10_DeleteAnswer /\ [][C10_DeleteStep]_vars

\* the owner repeats the DELETE of a session that held messages
C10_Witness ==
    /\ resp.op = "DELETE"
    /\ resp.status = 204
    /\ ~resp.g.preExists
    /\ resp.sid # ClientId
    /\ creator[resp.sid] = resp.uid
    /\ messages = {}
    /\ now > 3

(* C11: when the owner's DELETE /api/sessions/{sessionId} is answered 204,  *)
(* with requests handled one at a time, no message document of the session  *)
(* remains in the store, however many messages the session held.            *)
C11_DeleteRemovesAllMessages ==
    resp.op = "DELETE" /\ resp.status = 204 /\ resp.g.preExists =>
        MessagesOf(resp.sid) = {}

\* the owner's DELETE of a session of at most 500 messages has removed them
C11_Witness ==
    /\ resp.op = "DELETE" /\ resp.status = 204 /\ resp.g.preExists
    /\ now = 2 * DeleteBatchLimit + 2
    /\ messages = {}

(* C12: POST /api/sessions with a valid token creates exactly one new       *)
(* session document, with ownerId the caller's uid and status 'active',     *)
(* whatever the body (absent, unparseable, with or without a message), and  *)
(* answers 201 with its id, unless the session has been deleted by the      *)
(* time the initial user message refreshes updatedAt: then the update is    *)
(* rejected and the answer is 500.  Without a valid token it answers 401    *)
(* and the store is unchanged.                                              *)
C12_CreateAnswer ==
    /\ \A s \in Slots :
          reqs[s].op = "POST_SESSION" =>
              /\ reqs[s].uid \in Users
              /\ reqs[s].sid \in 1 .. nextAuto
              /\ SessionExists(reqs[s].sid) =>
                    sessions[reqs[s].sid].ownerId \in {reqs[s].uid, Absent}
              /\ \A t \in Slots \ {s} :
                    reqs[t].op = "POST_SESSION" => reqs[t].sid # reqs[s].sid
    /\ resp.op = "POST_SESSION" =>
        /\ resp.status \in {201, 401, 500}
        /\ resp.status = 401 <=> resp.uid = NoUser
        /\ resp.status \in {201, 500} =>
              /\ resp.sid \in 1 .. nextAuto
              /\ SessionExists(resp.sid) =>
                    /\ sessions[resp.sid].ownerId \in {resp.uid, Absent}
                    /\ sessions[resp.sid].status = "active"
        /\ resp.status = 500 =>
              /\ ~SessionExists(resp.sid)
              /\ Len(resp.g.appended) = 1
              /\ resp.g.calls = 0

C12_CreateStep ==
    /\ resp = NoResp /\ resp'.op = "POST_SESSION" /\ resp'.status = 401 =>
          UNCHANGED Storage
    /\ nextAuto' # nextAuto =>
          LET sid == nextAuto + 1
          IN /\ nextAuto' = sid
             /\ ~SessionExists(sid)
             /\ \A x \in SessionIds \ {sid} : sessions'[x] = sessions[x]
             /\ sessions'[sid].exists
             /\ sessions'[sid].ownerId \in Users
             /\ sessions'[sid].status = "active"
             /\ creator'[sid] = sessions'[sid].ownerId
             /\ \/ /\ resp'.op = "POST_SESSION" /\ resp'.status = 201
                   /\ resp'.sid = sid /\ resp'.uid = sessions'[sid].ownerId
                   /\ reqs' = reqs
                \/ \E s \in Slots :
                      /\ reqs[s].op = "idle" /\ reqs'[s].op = "POST_SESSION"
                      /\ reqs'[s].sid = sid
                      /\ reqs'[s].uid = sessions'[sid].ownerId
    /\ \A s \in Slots :
          /\ reqs[s].op = "idle" /\ reqs'[s].op = "POST_SESSION" =>
                nextAuto' = nextAuto + 1
          /\ reqs[s].op = "POST_SESSION" /\ reqs'[s] # reqs[s] =>
                /\ nextAuto' = nextAuto
                /\ \A sid \in SessionIds :
                      sessions'[sid].exists = sessions[sid].exists
                /\ reqs'[s].op = "idle" =>
                      /\ resp'.op = "POST_SESSION"
                      /\ resp'.sid = reqs[s].sid /\ resp'.uid = reqs[s].uid
                      /\ resp'.status = 500 <=>
                            reqs[s].pc = "updUser" /\ ~SessionExists(reqs[s].sid)

C12_CreateSession == []C12_CreateAnswer /\ [][C12_CreateStep]_vars

\* every request with a valid token is answered 201
C12_CreateAnswered201 ==
    resp.op = "POST_SESSION" =>
        /\ resp.status \in {201, 401}
        /\ resp.status = 401 <=> resp.uid = NoUser

\* a second session, created from a request without a usable body
C12_Witness ==
    /\ resp.op = "POST_SESSION"
    /\ resp.status = 201
    /\ resp.sid = 2
    /\ sessions[2].title = "Session started <date>"
    /\ sessions[1].exists

\* the owner deleted the new session before its initial message refreshed
\* updatedAt: the answer is 500 and the message stays without its session
C12_WitnessDeleted ==
    /\ resp.op = "POST_SESSION"
    /\ resp.status = 500
    /\ ~SessionExists(resp.sid)
    /\ resp.g.appended[1] \in messages

\* the answer to an authenticated caller who is not the owner of the
\* project document the handler read
NonOwnerAnswer ==
    /\ resp.uid # NoUser
    /\ resp.doc.exists
    /\ resp.doc.ownerId # resp.uid

(* C13: a caller who is not the owner of a project cannot change or remove  *)
(* it: PATCH, DELETE and download by a non-owner are answered 403, public   *)
(* project or not, and the document is unchanged; GET by a non-owner is     *)
(* answered 200 when isPublic is true and 403 otherwise.                    *)
C13_NonOwnerForbidden ==
    /\ resp.op \in {"PATCH_PROJECT", "DELETE_PROJECT", "DOWNLOAD_PROJECT"}
       /\ NonOwnerAnswer
       => resp.status = 403 /\ projects[resp.pid] = resp.doc
    /\ resp.op = "GET_PROJECT" /\ NonOwnerAnswer =>
          /\ resp.status \in {200, 403}
          /\ resp.status = 200 <=> resp.doc.isPublic = "true"

(* C13 as the code has it: the same, except that a non-owner's PATCH whose  *)
(* body is not JSON, or is the JSON value null, is answered 500, the body   *)
(* being read before the project; the document is unchanged in every case,  *)
(* and a project document changes or disappears only in a PATCH or DELETE   *)
(* of its owner, whatever other requests run at the same time.              *)
C13_NonOwnerAnswer ==
    /\ resp.op \in {"DELETE_PROJECT", "DOWNLOAD_PROJECT"} /\ NonOwnerAnswer =>
          resp.status = 403 /\ projects[resp.pid] = resp.doc
    /\ resp.op = "PATCH_PROJECT" /\ NonOwnerAnswer =>
          /\ resp.status = IF resp.threw THEN 500 ELSE 403
          /\ projects[resp.pid] = resp.doc
    /\ resp.op = "GET_PROJECT" /\ NonOwnerAnswer =>
          /\ resp.status \in {200, 403}
          /\ resp.status = 200 <=> resp.doc.isPublic = "true"
          /\ projects[resp.pid] = resp.doc

C13_NonOwnerStep ==
    /\ \A pid \in ProjectIds :
          projects'[pid] # projects[pid] =>
              \E s \in Slots :
                  /\ reqs[s].op \in {"PATCH_PROJECT", "DELETE_PROJECT"}
                  /\ reqs[s].pid = pid
                  /\ reqs[s].uid = projects[pid].ownerId
                  /\ reqs'[s] # reqs[s]
    /\ resp'.op \in {"PATCH_PROJECT", "DELETE_PROJECT", "DOWNLOAD_PROJECT",
                     "GET_PROJECT"}
       /\ resp'.uid # NoUser /\ resp'.doc.exists /\ resp'.doc.ownerId # resp'.uid
       => UNCHANGED <<projects, reqs>>

C13_NonOwnerCannotChange == []C13_NonOwnerAnswer /\ [][C13_NonOwnerStep]_vars

\* a non-owner's PATCH of a public project has been answered 403
C13_Witness ==
    /\ resp.op = "PATCH_PROJECT"
    /\ NonOwnerAnswer
    /\ resp.doc.isPublic = "true"
    /\ resp.status = 403

\* the answer to a PATCH of a project by its owner
OwnerPatchAnswer ==
    /\ resp.op = "PATCH_PROJECT"
    /\ resp.doc.exists
    /\ resp.doc.ownerId = resp.uid

\* the fields of a project document that PATCH must leave alone
KeptProjectFields ==
    {"exists", "ownerId", "sessionId", "storagePath", "isPublic", "files",
     "createdAt"}

\* document after differs from document before in the provided fields and
\* updatedAt only
OnlyProvidedChanged(before, after, upd) ==
    /\ \A f \in KeptProjectFields : after[f] = before[f]
    /\ after.name = IF upd.name = Nil THEN before.name ELSE upd.name
    /\ after.description =
          IF upd.description = Nil THEN before.description ELSE upd.description

(* C15: PATCH of a project by its owner changes only the provided name      *)
(* and/or description plus updatedAt and leaves ownerId, sessionId,         *)
(* storagePath, isPublic and files unchanged; a body that provides neither  *)
(* name nor description is answered 400 and nothing is written.             *)
C15_OwnerPatchFrame ==
    OwnerPatchAnswer =>
        IF resp.upd = NoUpdates
        THEN resp.status = 400 /\ projects[resp.pid] = resp.doc
        ELSE projects[resp.pid].exists =>
                \A f \in KeptProjectFields : projects[resp.pid][f] = resp.doc[f]

(* C15 as the code has it: the same, except that a body that is not JSON,   *)
(* or is the JSON value null, is answered 500 (nothing is written).  The    *)
(* update of a PATCH changes the provided fields of the document as it is   *)
(* then, and sets updatedAt to the time the handler took before the         *)
(* update; every step that changes a project document that stays in the     *)
(* store changes its name, description and updatedAt only.  A PATCH that    *)
(* provides a field is answered 200, or 500 when the project was deleted    *)
(* while the request ran.                                                   *)
C15_OwnerPatchAnswer ==
    OwnerPatchAnswer =>
        IF resp.upd = NoUpdates
        THEN /\ resp.status = IF resp.threw THEN 500 ELSE 400
             /\ projects[resp.pid] = resp.doc
        ELSE /\ resp.status \in {200, 500}
             /\ resp.status = 200 => projects[resp.pid].exists
             /\ projects[resp.pid].exists =>
                   \A f \in KeptProjectFields :
                       projects[resp.pid][f] = resp.doc[f]

C15_OwnerPatchStep ==
    /\ \A s \in Slots :
          /\ reqs[s].op = "PATCH_PROJECT" /\ reqs[s].pc = "update"
          /\ reqs'[s].pc = "reread"
          => /\ reqs[s].upd # NoUpdates
             /\ OnlyProvidedChanged(projects[reqs[s].pid], projects'[reqs[s].pid],
                                    reqs[s].upd)
             /\ projects'[reqs[s].pid].updatedAt = reqs[s].ts
             /\ reqs[s].ts > reqs[s].doc.updatedAt
             /\ \A p \in ProjectIds \ {reqs[s].pid} : projects'[p] = projects[p]
    /\ \A pid \in ProjectIds :
          projects'[pid] # projects[pid] /\ projects'[pid].exists =>
              /\ \A f \in KeptProjectFields : projects'[pid][f] = projects[pid][f]
              /\ \E s \in Slots :
                    /\ reqs[s].op = "PATCH_PROJECT" /\ reqs[s].pc = "update"
                    /\ reqs'[s].pc = "reread"
                    /\ reqs[s].pid = pid

C15_OwnerPatch == []C15_OwnerPatchAnswer /\ [][C15_OwnerPatchStep]_vars

\* the owner has renamed a project and has been answered 200
C15_Witness ==
    /\ OwnerPatchAnswer
    /\ resp.status = 200
    /\ resp.upd.name = Str("Renamed") /\ resp.upd.description = Nil
    /\ projects[resp.pid].name = Str("Renamed")
    /\ projects[resp.pid].description = resp.doc.description
    /\ projects[resp.pid].updatedAt > resp.doc.updatedAt

\* the project was deleted while its owner's PATCH ran: the PATCH is
\* answered 500
C15_WitnessDeleted ==
    /\ OwnerPatchAnswer
    /\ resp.upd # NoUpdates
    /\ resp.status = 500
    /\ ~projects[resp.pid].exists

\* the fields of a profile that PATCH must leave alone
KeptProfileFields ==
    {"exists", "uid", "email", "planTier", "usageCounters", "createdAt"}

\* the answer to a PATCH of users/me with a valid token
UserPatchAnswer == resp.op = "PATCH_USER" /\ resp.uid # NoUser

(* C14: PATCH /api/users/me changes only the caller's own name, settings    *)
(* and updatedAt: the uid, email, planTier and usageCounters of every       *)
(* profile and the profiles of other users are unchanged; a body with no    *)
(* string name and no object settings is answered 400 and writes nothing.   *)
C14_PatchOwnProfile ==
    UserPatchAnswer =>
        /\ resp.upd = NoUpdates =>
              resp.status = 400 /\ profiles[resp.uid] = resp.doc
        /\ resp.upd # NoUpdates =>
              IF resp.doc.exists
              THEN \A f \in KeptProfileFields :
                       profiles[resp.uid][f] = resp.doc[f]
              ELSE profiles[resp.uid] = resp.doc

(* C14 as the code has it: the same, except that a body that is not JSON,   *)
(* or is the JSON value null, is answered 500; nothing is written in that   *)
(* case either.  Every step that changes a profile is the update of a       *)
(* PATCH by that profile's user: it writes a name only when it is a string  *)
(* and settings only when they are an object, sets updatedAt to the time    *)
(* the handler took before the update, keeps uid, email, planTier,          *)
(* usageCounters and createdAt and creates no profile.                      *)
C14_PatchAnswer ==
    UserPatchAnswer =>
        /\ resp.upd = NoUpdates =>
              /\ resp.status = IF resp.threw THEN 500 ELSE 400
              /\ profiles[resp.uid] = resp.doc
        /\ resp.upd # NoUpdates =>
              /\ ~resp.threw
              /\ IF resp.doc.exists
                 THEN \A f \in KeptProfileFields :
                          profiles[resp.uid][f] = resp.doc[f]
                 ELSE profiles[resp.uid] = resp.doc
        /\ resp.status = 200 =>
              /\ resp.upd.name # Nil => profiles[resp.uid].name.t = "string"
              /\ resp.upd.settings # Nil =>
                    profiles[resp.uid].settings.t \in {"object", "array"}

C14_PatchStep ==
    /\ \A s \in Slots :
          /\ reqs[s].op = "PATCH_USER" /\ reqs[s].pc = "update"
          /\ reqs'[s].pc = "reread"
          => LET u == reqs[s].uid
                 upd == reqs[s].upd
             IN /\ upd.name # Nil => upd.name.t = "string"
                /\ upd.settings # Nil => upd.settings.t \in {"object", "array"}
                /\ profiles'[u].name =
                      IF upd.name = Nil THEN profiles[u].name ELSE upd.name
                /\ profiles'[u].settings =
                      IF upd.settings = Nil THEN profiles[u].settings
                      ELSE upd.settings
                /\ profiles'[u].updatedAt = reqs[s].ts
                /\ \A v \in Users \ {u} : profiles'[v] = profiles[v]
    /\ \A u \in Users :
          profiles'[u] # profiles[u] =>
              /\ \E s \in Slots :
                    /\ reqs[s].op = "PATCH_USER" /\ reqs[s].pc = "update"
                    /\ reqs'[s].pc = "reread"
                    /\ reqs[s].uid = u
              /\ \A f \in KeptProfileFields : profiles'[u][f] = profiles[u][f]

C14_PatchFrame == []C14_PatchAnswer /\ [][C14_PatchStep]_vars

\* a PATCH with a string name and an array as settings has been answered 200
\* and both are stored
C14_Witness ==
    /\ UserPatchAnswer
    /\ resp.status = 200
    /\ resp.upd.name = Str("Bob") /\ resp.upd.settings = Arr(<<>>)
    /\ profiles[resp.uid].name = Str("Bob")
    /\ profiles[resp.uid].settings = Arr(<<>>)
    /\ profiles[resp.uid].planTier = resp.doc.planTier

\* the answer to a generate request of the session's owner
OwnerGenerateAnswer ==
    /\ resp.op = "GENERATE"
    /\ resp.doc.exists
    /\ resp.uid # NoUser
    /\ resp.doc.ownerId = resp.uid

(* C16: usage limits are not enforced: POST /api/sessions/{sessionId}/      *)
(* generate by the session's owner is answered 202 with status              *)
(* 'generating' whatever the usage counters of the caller are, and no       *)
(* generate request is answered 429.                                        *)
C16_GenerateAccepted ==
    /\ resp.op = "GENERATE" => resp.status # 429
    /\ OwnerGenerateAnswer => resp.status = 202 /\ resp.text = "generating"

\* what holds of every generate request: never 429, 202 with 'generating'
\* only for the owner, no stored document modified
C16_GenerateNeverLimited ==
    /\ resp.op = "GENERATE" => resp.status \in {401, 403, 500, 202}
    /\ resp.op = "GENERATE" /\ resp.status = 202 =>
          OwnerGenerateAnswer /\ resp.text = "generating"
    /\ OwnerGenerateAnswer => resp.status \in {202, 500}

C16_GenerateWritesNothing ==
    [][(\E h \in Headers, sid \in KnownIds, b \in GenerateBodies :
            Generate(h, sid, b))
       => UNCHANGED <<Storage, Elsewhere>>]_vars

\* the owner, with usage counters on the profile, has been answered 202
C16_Witness ==
    /\ OwnerGenerateAnswer
    /\ resp.status = 202
    /\ profiles[resp.uid].exists
    /\ profiles[resp.uid].usageCounters = SomeCounters

\* the ADK service answered the session creation with a success or with
\* 400, which it gives for a session that already exists
SessionEnsured(status) == (status >= 200 /\ status <= 299) \/ status = 400

\* what C17 asks of one request to the proxy, in flight or answered
RunAfterSession(r) ==
    /\ r.g.sessCalls <= 1 /\ r.g.runCalls <= 1
    /\ r.g.runCalls = 1 =>
          /\ r.g.sessCalls = 1
          /\ SessionEnsured(r.g.sessStatus)
          /\ r.g.runKey = r.g.sessKey
          /\ r.g.sessKey.app = "ai-agent"
          /\ r.g.sessKey.session \in {Uuid, "session-456"}

(* C17: in POST /api/adk the run request is sent only after the session-    *)
(* creation request for the same app, user and session id has been          *)
(* answered with a success or with already-exists (400); when the session   *)
(* creation fails or the service cannot be reached, the handler answers     *)
(* 500 and sends no run request.                                            *)
C17_SessionBeforeRun ==
    /\ \A s \in Slots : reqs[s].op = "POST_ADK" =>
          /\ RunAfterSession(reqs[s])
          /\ reqs[s].pc = "adkSession" => reqs[s].g.runCalls = 0
    /\ resp.op = "POST_ADK" =>
          /\ RunAfterSession(resp)
          /\ resp.g.sessCalls = 1 /\ ~SessionEnsured(resp.g.sessStatus) =>
                resp.status = 500 /\ resp.g.runCalls = 0

\* the service answered 400 to the session creation of a request that named
\* its session, the run request was sent for the same session and answered
C17_Witness ==
    /\ resp.op = "POST_ADK"
    /\ resp.g.sessStatus = 400
    /\ resp.g.runCalls = 1
    /\ resp.g.runKey = AdkKey("session-456")
    /\ resp.status = 200

\* the service could not be reached for the session creation
C17_WitnessUnreachable ==
    /\ resp.op = "POST_ADK"
    /\ resp.g.sessCalls = 1 /\ resp.g.sessStatus = 0
    /\ resp.status = 500 /\ resp.g.runCalls = 0

\* the shapes of C18 in their priority order: whether the result has the
\* shape, and the text it gives
ShapeMatches(r) ==
    <<r.message.t = "object" /\ r.message.content.t = "object"
          /\ FirstPartText(r.message.content.parts) # Nil,
      r.events.t = "array",
      r.final_response.t = "object" /\ Truthy(r.final_response.text),
      r.response.t = "string",
      Truthy(r.text),
      Truthy(r.content),
      Truthy(r.message)>>

ShapeText(r, i) ==
    CASE i = 1 -> r.message.content.parts.v[1].text.s
      [] i = 2 -> IF FinalEventText(r.events) = Nil THEN DefaultText
                  ELSE FinalEventText(r.events).s
      [] i = 3 -> r.final_response.text.s
      [] i = 4 -> r.response.s
      [] i = 5 -> r.text.s
      [] i = 6 -> IF r.content.t = "string" THEN r.content.s ELSE "<json>"
      [] i = 7 -> IF r.message.t = "string" THEN r.message.s
                  ELSE IF r.message.text.t = "string" THEN r.message.text.s
                  ELSE "<json>"

\* the text of the first shape that matches, the default when none does
ChosenText(r) ==
    LET hits == {i \in 1 .. 7 : ShapeMatches(r)[i]}
    IN IF hits = {} THEN DefaultText
       ELSE ShapeText(r, CHOOSE i \in hits : \A j \in hits : i <= j)

(* C18: extractResponseText takes the text of the first shape that matches, *)
(* in the order message.content.parts[0].text, FINAL_RESPONSE event of an   *)
(* events array, final_response.text, response, text, content, message,     *)
(* and the default text when none matches; an events array without a        *)
(* FINAL_RESPONSE text gives the default whatever lower-priority fields     *)
(* are present; a json block in the chosen text that parses replaces the    *)
(* text by its content, when it has one, and the next_actions by its        *)
(* next_actions, when it has an array of them.                              *)
C18_ExtractPriority ==
    resp.op = "EXTRACT" =>
        IF resp.doc.isNull
        THEN resp.text = DefaultText /\ resp.na = NoActions
        ELSE LET r == resp.doc
                 chosen == ChosenText(r)
                 blk == JsonBlock(chosen)
             IN /\ ~ShapeMatches(r)[1] /\ r.events.t = "array"
                   /\ FinalEventText(r.events) = Nil => resp.text = DefaultText
                /\ resp.text = IF blk.matched /\ blk.parses /\ Truthy(blk.content)
                               THEN blk.content.s ELSE chosen
                /\ blk.matched /\ blk.parses /\ blk.next_actions.t = "array" =>
                      resp.na = Actions(blk.next_actions.v)
                /\ ~(blk.matched /\ blk.parses /\ blk.next_actions.t = "array") =>
                      resp.na \in {NoActions, Actions(<<"Next">>), Actions(<<"Top">>)}

\* an empty events array wins over response, text and content, and the
\* default text is returned
C18_Witness ==
    /\ resp.op = "EXTRACT"
    /\ ~resp.doc.isNull
    /\ resp.doc.message = Nil
    /\ resp.doc.events = Arr(<<>>)
    /\ resp.doc.response = Str("Response text")
    /\ resp.doc.text = Str(JsonText)
    /\ resp.text = DefaultText

\* the text field is chosen and its json block replaces text and next_actions
C18_WitnessJsonBlock ==
    /\ resp.op = "EXTRACT"
    /\ ~resp.doc.isNull
    /\ resp.doc.text = Str(JsonText)
    /\ resp.doc.next_actions = Arr(<<"Top">>)
    /\ resp.text = ParsedText
    /\ resp.na = Actions(<<"Go on">>)

(* C19: every stored message belongs to an existing session: whenever no     *)
(* request is in flight, after any interleaving of POST                      *)
(* /api/sessions/{id}/messages and DELETE /api/sessions/{id} requests, the   *)
(* session document of each message document exists.                         *)
C19_MessagesHaveSession ==
    (\A s \in Slots : reqs[s].op = "idle") =>
        \A m \in messages : sessions[m.sid].exists

\* a DELETE of the owner has been answered 204, no request is in flight, and
\* a message of the deleted session is in the store
C19_Witness ==
    /\ \A s \in Slots : reqs[s].op = "idle"
    /\ resp.op = "POST_MSG"
    /\ \E m \in messages : m.sid = resp.sid /\ ~sessions[m.sid].exists

(* C20: a profile is created on first login with planTier 'Free' and empty  *)
(* settings, and a login changes nothing of an existing profile but an      *)
(* empty name and updatedAt: whatever the interleaving of the two           *)
(* initializeUserProfile runs of a sign-in and of PATCH /api/users/me       *)
(* requests, a run that ends leaves a profile, and leaves the name and      *)
(* settings the profile held, those written by a PATCH included.            *)
C20_LoginKeepsProfile ==
    resp.op = "INIT_PROFILE" =>
        LET before == resp.doc
            after == profiles[resp.uid]
        IN IF ~before.exists
           THEN /\ after.exists
                /\ after.planTier = "Free"
                /\ after.settings = EmptySettings
           ELSE /\ after.exists
                /\ \A f \in KeptProfileFields \cup {"settings"} :
                       after[f] = before[f]
                /\ Truthy(before.name) => after.name = before.name

\* a run has ended and has replaced the name a completed PATCH had written
C20_Witness ==
    /\ resp.op = "INIT_PROFILE"
    /\ resp.doc.exists
    /\ resp.doc.name = Str("Bob")
    /\ \A s \in Slots : reqs[s].op = "idle"
    /\ profiles[resp.uid].name = Str("Ann G")

\* both runs of a first login have ended and the user has no profile
C20_WitnessNotCreated ==
    /\ resp.op = "INIT_PROFILE"
    /\ \A i \in Runs : inits[i].pc = "idle"
    /\ ~profiles[resp.uid].exists

====
